---- MODULE Spec2Model ----
(***************************************************************************)
(* Sidecar supervision and initialization of the desktop shell             *)
(* (packages/desktop/src-tauri/src: cli.rs, server.rs, lib.rs).            *)
(*                                                                         *)
(* SpecSup : one process spawned by spawn_command, with its two line       *)
(*           readers, its liveness supervisor, the migration middleware    *)
(*           and a client holding the CommandChild handle.                 *)
(* Spec    : initialize with its loading task, the sidecar server it       *)
(*           spawns (supervised as in SpecSup), the health check and the   *)
(*           calls of await_initialization.                                *)
(***************************************************************************)
EXTENDS Naturals, Integers, Sequences, FiniteSets, TLC

\* ------------------------------------------------------------------ bounds
MaxOutLines == 2      \* lines the process writes on stdout
MaxErrLines == 1      \* lines the process writes on stderr
ChanCap == 1          \* capacity of the multiplexing channel (256 in cli.rs:342)
MaxKillCalls == 2     \* kill() calls the client makes
MaxStartKills == 2    \* start_kill calls that are counted (the counter saturates)
NumCallers == 2       \* calls of await_initialization

\* ------------------------------------------------------- program constants
KillCap == 1          \* mpsc::channel(1), cli.rs:343

VARIABLES
    proc,        \* the child process: "none", "running", "exited"
    out,         \* stdout lines written or still to be written, not yet read
    err,         \* stderr lines, likewise
    rdOut,       \* the stdout reader task still holds its tx clone
    rdErr,       \* the stderr reader task still holds its tx clone
    chan,        \* the multiplexing channel (tx, rx)
    supPc,       \* the supervisor task: "none", "try_wait", "select", "send", "done"
    waitStatus,  \* what the loop broke with: "none", "exit" (Ok(status)), "error" (Err)
    kill_chan,   \* pending messages of the kill channel (kill_tx, kill_rx)
    handles,     \* live CommandChild values (senders of the kill channel)
    killCalls,   \* number of kill() calls made
    lastKill,    \* the last kill() call: was a request pending, what it returned
    startKills,  \* number of child.start_kill() calls (saturating)
    mwDone,      \* logs_middleware: `done`
    emitted,     \* SqliteMigrationProgress events emitted, in order
    delivered,   \* events the stream handed to its consumer, in order
    streamEnded, \* the consumer saw the end of the stream
    exit_tx,     \* serve: the exit oneshot: "none", "pending", "sent", "dropped"
    \* ---- initialize (lib.rs)
    needsMigration, \* needs_sqlite_migration
    stepHist,    \* every value sent through init_tx, the initial one first
    listener,    \* the SqliteMigrationProgress listener is registered
    done_tx,     \* the listener's done_tx: "none", "pending", "sent"
    sqlite_done, \* the task behind sqlite_done: "none", "pending", "joined"
    conn,        \* server_connection: "none", "Existing", "CLI"
    ltPc,        \* loading_task: "connect", "gate", "await_ready", "finished", "panicked"
    hcTask,      \* the HealthCheck task: "none", "running", "ok", "terminated"
    hcwPc,       \* cli_health_check: "none", "waiting", "publish", "done"
    hcwRes,      \* what its timeout(..).await gave: "none", "ok", "terminated", "timeout"
    status,      \* the value sent through server_ready_tx (ServerState.status)
    stateChild,  \* ServerState.child is Some
    initPc,      \* initialize: "race", "await_loading", "ack", "end"
    loadingWindow, \* "none", "shown", "closed"
    ack,         \* LoadingWindowComplete was emitted
    mainCreates, \* calls of MainWindow::create
    mainWindows, \* main windows built (label "main")
    workRuns,    \* runs of setup_server_connection
    \* ---- await_initialization, one call per caller
    cPc,         \* "idle", "loop", "events_done", "returned"
    seen,        \* the version its watch receiver has marked seen
    sent,        \* the steps sent through the events channel of call 1, in order
    joinIdx,     \* how many values had been published when call 1 joined
    ret,         \* what the call returned
    \* ---- logs_middleware and setup_server_connection, each taken alone
    mwIn,        \* the stream given to logs_middleware
    mwPos,       \* how many of its events the filter_map closure was given
    resIn,       \* what setup_server_connection finds: URLs, probes, answers
    resOut,      \* the ServerConnection it returned
    resSaved,    \* what get_saved_server_url returned, and whether get_config ran
    \* ---- the task of spawn_local_server, taken alone
    hcProbes,    \* probes of the spawned server that failed so far
    hcHealthy,   \* a probe succeeded: the `ready` future is complete
    hcExit,      \* the exit oneshot: pending, dropped, or sent with a payload
    hcOut,       \* what the task returned: still running, Ok(()) or Err(message)
    \* ---- spawn_command taken alone: what its process writes in all
    wOut,        \* the lines the process writes to stdout, in order
    wErr,        \* the lines it writes to stderr, in order
    \* ---- select_backend (linux_windowing.rs), taken alone
    winEnv,      \* the SessionEnv it is given
    winPrefer,   \* prefer_wayland
    winOut,      \* what it returned, once it has
    decOut,      \* what use_decorations returned for winEnv, once it has
    \* ---- the per-launch password, from setup_server_connection to Ready
    credIn,      \* the servers found at the custom and local URLs, the uuid
    credPc,      \* where the run is
    credConn,    \* the ServerConnection that setup_server_connection returned
    credEnv,     \* OPENCODE_SERVER_PASSWORD in the sidecar's environment
    credTask,    \* the password the health-check task probes with
    credProbes,  \* the health probes made so far, in order
    credOut      \* the terminal result

supVars == <<proc, out, err, rdOut, rdErr, chan, supPc, waitStatus, kill_chan,
             handles, killCalls, lastKill, startKills, mwDone, emitted,
             delivered, streamEnded, exit_tx>>

orchVars == <<needsMigration, stepHist, listener, done_tx, sqlite_done, conn,
              ltPc, hcTask, hcwPc, hcwRes, status, stateChild, initPc,
              loadingWindow, ack, mainCreates, mainWindows, workRuns>>

callVars == <<cPc, seen, sent, joinIdx, ret>>

mwVars == <<mwIn, mwPos>>

resVars == <<resIn, resOut, resSaved>>

hcVars == <<hcProbes, hcHealthy, hcExit, hcOut>>

wrVars == <<wOut, wErr>>

winVars == <<winEnv, winPrefer, winOut, decOut>>

credVars == <<credIn, credPc, credConn, credEnv, credTask, credProbes,
              credOut>>

unitVars == <<mwVars, resVars, hcVars, wrVars, winVars, credVars>>

vars == <<supVars, orchVars, callVars, unitVars>>

\* ------------------------------------------------------------------- lines
\* A line of output. utf8: the bytes decode as UTF-8; pfx: it starts with
\* "sqlite-migration:"; kind/n: what follows the prefix once trimmed.
Line(u, p, k, n) == [utf8 |-> u, pfx |-> p, kind |-> k, n |-> n]
Plain    == Line(TRUE, FALSE, "text", 0)
Other    == Line(TRUE, FALSE, "text", 1)
Mig(n)   == Line(TRUE, TRUE, "num", n)
MigDone  == Line(TRUE, TRUE, "done", 0)
MigJunk  == Line(TRUE, TRUE, "junk", 0)
BadUtf8  == Line(FALSE, FALSE, "text", 0)
NoLine   == Line(TRUE, FALSE, "none", 0)

StdoutLines == {Plain, MigDone, BadUtf8}
StderrLines == {Plain}

RECURSIVE SeqsUpTo(_, _)
SeqsUpTo(S, n) ==
    IF n = 0 THEN {<<>>}
    ELSE LET shorter == SeqsUpTo(S, n - 1)
         IN  shorter \cup {Append(s, x) : s \in {t \in shorter : Len(t) = n - 1}, x \in S}

\* ------------------------------------------------------------------ events
Event(k, l) == [kind |-> k, line |-> l]
Stdout(l)   == Event("Stdout", l)
Stderr(l)   == Event("Stderr", l)
Terminated  == Event("Terminated", NoLine)
Error       == Event("Error", NoLine)

Progress(k, n) == [type |-> k, value |-> n]
InProgress(n)  == Progress("InProgress", n)
Done           == Progress("Done", 0)

\* s.parse::<u8>() succeeds
ParseU8(l) == l.kind = "num" /\ l.n \in 0..255

Min(a, b) == IF a < b THEN a ELSE b

\* ---------------------------------------------------------- the process
\* out and err are the lines the process writes before it exits; it exits
\* when it likes, by itself or after a kill, and what it wrote stays readable.
ProcExit ==
    /\ proc = "running"
    /\ proc' = "exited"
    /\ UNCHANGED <<out, err, rdOut, rdErr, chan, supPc, waitStatus, kill_chan,
                   handles, killCalls, lastKill, startKills, mwDone, emitted,
                   delivered, streamEnded, exit_tx>>
    /\ UNCHANGED <<orchVars, callVars>>
    /\ UNCHANGED unitVars

\* ------------------------------------------------------ the reader tasks
\* (mutant) the reader hands over the newest line of the pipe first
ReadLineNewest(buf) ==
    [line |-> buf[Len(buf)], rest |-> SubSeq(buf, 1, Len(buf) - 1)]

\* lines.next_line(): the oldest line of the pipe not yet read
ReadLine(buf) == [line |-> Head(buf), rest |-> Tail(buf)]

\* while let Ok(Some(line)) = lines.next_line().await { tx.send(Stdout(line)).await }
\* next_line fails on bytes that are not UTF-8, and the loop ends there.
StdoutReader ==
    /\ rdOut
    /\ \/ /\ out # <<>> /\ Head(out).utf8
          /\ Len(chan) < ChanCap
          /\ chan' = Append(chan, Stdout(ReadLine(out).line))
          /\ out' = ReadLine(out).rest
          /\ UNCHANGED rdOut
       \/ /\ out # <<>> /\ ~Head(out).utf8
          /\ rdOut' = FALSE
          /\ out' = <<>>
          /\ UNCHANGED chan
       \/ /\ out = <<>> /\ proc = "exited"
          /\ rdOut' = FALSE
          /\ UNCHANGED <<out, chan>>
    /\ UNCHANGED <<proc, err, rdErr, supPc, waitStatus, kill_chan, handles,
                   killCalls, lastKill, startKills, mwDone, emitted, delivered,
                   streamEnded, exit_tx>>
    /\ UNCHANGED <<orchVars, callVars>>
    /\ UNCHANGED unitVars

StderrReader ==
    /\ rdErr
    /\ \/ /\ err # <<>> /\ Head(err).utf8
          /\ Len(chan) < ChanCap
          /\ chan' = Append(chan, Stderr(ReadLine(err).line))
          /\ err' = ReadLine(err).rest
          /\ UNCHANGED rdErr
       \/ /\ err # <<>> /\ ~Head(err).utf8
          /\ rdErr' = FALSE
          /\ err' = <<>>
          /\ UNCHANGED chan
       \/ /\ err = <<>> /\ proc = "exited"
          /\ rdErr' = FALSE
          /\ UNCHANGED <<err, chan>>
    /\ UNCHANGED <<proc, out, rdOut, supPc, waitStatus, kill_chan, handles,
                   killCalls, lastKill, startKills, mwDone, emitted, delivered,
                   streamEnded, exit_tx>>
    /\ UNCHANGED <<orchVars, callVars>>
    /\ UNCHANGED unitVars

\* ------------------------------------------------- the supervisor task
\* child.try_wait(): Ok(Some(status)) breaks the loop with the status,
\* Err(err) breaks it with the error, Ok(None) goes on to the select.
TryWait(p, pc, st) ==
    {[pc |-> "send", st |-> "error"]}
    \cup (IF p = "exited" THEN {[pc |-> "send", st |-> "exit"]} ELSE {})
    \cup (IF p = "running" THEN {[pc |-> "select", st |-> st]} ELSE {})

\* the first try_wait of the loop
SupervisorTryWait ==
    /\ supPc = "try_wait"
    /\ \E r \in TryWait(proc, supPc, waitStatus) :
          supPc' = r.pc /\ waitStatus' = r.st
    /\ UNCHANGED <<proc, out, err, rdOut, rdErr, chan, kill_chan, handles,
                   killCalls, lastKill, startKills, mwDone, emitted, delivered,
                   streamEnded, exit_tx>>
    /\ UNCHANGED <<orchVars, callVars>>
    /\ UNCHANGED unitVars

\* kill_rx.recv() is ready: with a message, or with None once every
\* CommandChild is dropped and the channel is empty. Either way the branch
\* `_ = kill_rx.recv()` runs child.start_kill().
RecvReady == kill_chan > 0 \/ handles = 0

\* (mutant) the kill branch reports the termination itself, and the loop
\* reports it again when try_wait sees the exit
SupervisorSelectKillEmits ==
    /\ supPc = "select"
    /\ RecvReady
    /\ Len(chan) < ChanCap
    /\ chan' = Append(chan, Terminated)
    /\ kill_chan' = IF kill_chan > 0 THEN kill_chan - 1 ELSE 0
    /\ startKills' = Min(startKills + 1, MaxStartKills)
    /\ \E r \in TryWait(proc, supPc, waitStatus) :
          supPc' = r.pc /\ waitStatus' = r.st
    /\ UNCHANGED <<proc, out, err, rdOut, rdErr, handles,
                   killCalls, lastKill, mwDone, emitted, delivered,
                   streamEnded, exit_tx>>
    /\ UNCHANGED <<orchVars, callVars>>
    /\ UNCHANGED unitVars

\* the select wakes on kill_rx.recv(): start_kill, then the next try_wait
SupervisorSelectKill ==
    /\ supPc = "select"
    /\ RecvReady
    /\ kill_chan' = IF kill_chan > 0 THEN kill_chan - 1 ELSE 0
    /\ startKills' = Min(startKills + 1, MaxStartKills)
    /\ \E r \in TryWait(proc, supPc, waitStatus) :
          supPc' = r.pc /\ waitStatus' = r.st
    /\ UNCHANGED <<proc, out, err, rdOut, rdErr, chan, handles,
                   killCalls, lastKill, mwDone, emitted, delivered,
                   streamEnded, exit_tx>>
    /\ UNCHANGED <<orchVars, callVars>>
    /\ UNCHANGED unitVars

\* the select wakes on sleep(100 ms), then the next try_wait
SupervisorSelectSleep ==
    /\ supPc = "select"
    /\ \E r \in TryWait(proc, supPc, waitStatus) :
          supPc' = r.pc /\ waitStatus' = r.st
    /\ UNCHANGED <<proc, out, err, rdOut, rdErr, chan, kill_chan,
                   handles, killCalls, lastKill, startKills, mwDone, emitted,
                   delivered, streamEnded, exit_tx>>
    /\ UNCHANGED <<orchVars, callVars>>
    /\ UNCHANGED unitVars

\* match status: Ok -> tx.send(Terminated(payload)), Err -> tx.send(Error(..));
\* the task then ends and drops tx and kill_rx.
\* (mutant) a failed wait is reported as a termination
StatusEventTerminated(st) == Terminated

StatusEvent(st) == IF st = "exit" THEN Terminated ELSE Error

SupervisorSend ==
    /\ supPc = "send"
    /\ Len(chan) < ChanCap
    /\ chan' = Append(chan, StatusEvent(waitStatus))
    /\ supPc' = "done"
    /\ kill_chan' = 0
    /\ UNCHANGED <<proc, out, err, rdOut, rdErr, waitStatus, handles,
                   killCalls, lastKill, startKills, mwDone, emitted, delivered,
                   streamEnded, exit_tx>>
    /\ UNCHANGED <<orchVars, callVars>>
    /\ UNCHANGED unitVars

\* ---------------------------------------------------- CommandChild::kill
\* self.kill.try_send(()).map_err(..): Ok when the message is enqueued, Err
\* when the channel is full or its receiver is gone.
TrySend(n, closed) ==
    IF closed THEN [chan |-> n, ok |-> FALSE, why |-> "closed"]
    ELSE IF n < KillCap THEN [chan |-> n + 1, ok |-> TRUE, why |-> "sent"]
    ELSE [chan |-> n, ok |-> FALSE, why |-> "full"]

CommandChild_kill ==
    LET r == TrySend(kill_chan, supPc = "done")
    IN  /\ kill_chan' = r.chan
        /\ lastKill' = [pending |-> kill_chan > 0, ok |-> r.ok, why |-> r.why]
        /\ killCalls' = killCalls + 1

\* a client of spawn_command calling kill() on the handle it holds
ClientKill ==
    /\ handles > 0
    /\ killCalls < MaxKillCalls
    /\ CommandChild_kill
    /\ UNCHANGED <<proc, out, err, rdOut, rdErr, chan, supPc, waitStatus,
                   handles, startKills, mwDone, emitted, delivered,
                   streamEnded, exit_tx>>
    /\ UNCHANGED <<orchVars, callVars>>
    /\ UNCHANGED unitVars

\* the client drops the handle (as `let (events, _) = spawn_command(..)` does)
ClientDrop ==
    /\ handles > 0
    /\ handles' = 0
    /\ UNCHANGED <<proc, out, err, rdOut, rdErr, chan, supPc, waitStatus,
                   kill_chan, killCalls, lastKill, startKills, mwDone, emitted,
                   delivered, streamEnded, exit_tx>>
    /\ UNCHANGED <<orchVars, callVars>>
    /\ UNCHANGED unitVars

\* ------------------------------------------------------ logs_middleware
\* What the filter_map closure does with one event: the new `done`, the
\* progress events it emits and the events it forwards.
MwResult(d, em, fw) == [done |-> d, emit |-> em, fwd |-> fw]

\* (mutant) a progress line is reported and forwarded as well
logs_middleware_forwarding(done, e) ==
    IF done \/ e.kind # "Stdout" THEN MwResult(done, <<>>, <<e>>)
    ELSE IF ~e.line.utf8 THEN MwResult(done, <<>>, <<>>)
    ELSE IF ~e.line.pfx THEN MwResult(done, <<>>, <<e>>)
    ELSE IF ParseU8(e.line) THEN MwResult(done, <<InProgress(e.line.n)>>, <<e>>)
    ELSE IF e.line.kind = "done" THEN MwResult(TRUE, <<Done>>, <<>>)
    ELSE MwResult(done, <<>>, <<>>)

\* (mutant) the completion line is reported but `done` is never set
logs_middleware_never_done(done, e) ==
    IF done \/ e.kind # "Stdout" THEN MwResult(done, <<>>, <<e>>)
    ELSE IF ~e.line.utf8 THEN MwResult(done, <<>>, <<>>)
    ELSE IF ~e.line.pfx THEN MwResult(done, <<>>, <<e>>)
    ELSE IF ParseU8(e.line) THEN MwResult(done, <<InProgress(e.line.n)>>, <<>>)
    ELSE IF e.line.kind = "done" THEN MwResult(done, <<Done>>, <<>>)
    ELSE MwResult(done, <<>>, <<>>)

\* (mutant) a prefixed line that parses as nothing is forwarded
logs_middleware_lenient(done, e) ==
    IF done \/ e.kind # "Stdout" THEN MwResult(done, <<>>, <<e>>)
    ELSE IF ~e.line.utf8 THEN MwResult(done, <<>>, <<>>)
    ELSE IF ~e.line.pfx THEN MwResult(done, <<>>, <<e>>)
    ELSE IF ParseU8(e.line) THEN MwResult(done, <<InProgress(e.line.n)>>, <<>>)
    ELSE IF e.line.kind = "done" THEN MwResult(TRUE, <<Done>>, <<>>)
    ELSE MwResult(done, <<>>, <<e>>)

logs_middleware(done, e) ==
    IF done THEN [done |-> done, emit |-> <<>>, fwd |-> <<e>>]
    ELSE IF e.kind # "Stdout" THEN [done |-> done, emit |-> <<>>, fwd |-> <<e>>]
    ELSE IF ~e.line.utf8 THEN [done |-> done, emit |-> <<>>, fwd |-> <<>>]
    ELSE IF ~e.line.pfx THEN [done |-> done, emit |-> <<>>, fwd |-> <<e>>]
    ELSE IF ParseU8(e.line)
         THEN [done |-> done, emit |-> <<InProgress(e.line.n)>>, fwd |-> <<>>]
    ELSE IF e.line.kind = "done"
         THEN [done |-> TRUE, emit |-> <<Done>>, fwd |-> <<>>]
    ELSE [done |-> done, emit |-> <<>>, fwd |-> <<>>]

\* serve: the for_each closure sends the payload of Terminated through exit_tx
ServeEvent(tx, fwd) ==
    IF fwd # <<>> /\ fwd[1].kind = "Terminated" /\ tx = "pending" THEN "sent" ELSE tx

\* initialize: the closure given to SqliteMigrationProgress::listen, run for
\* each emitted event while it is registered: init_tx.send(SqliteWaiting),
\* and on Done the one-time done_tx.send(()).
ListenerSteps(reg, emit) == IF reg THEN [i \in 1..Len(emit) |-> "SqliteWaiting"] ELSE <<>>

ListenerDoneTx(reg, tx, emit) ==
    IF reg /\ tx = "pending" /\ \E i \in 1..Len(emit) : emit[i] = Done
    THEN "sent" ELSE tx

\* the consumer polls the stream: one event leaves the channel, goes through
\* the middleware (whose emit runs the listener) and, if forwarded, reaches
\* the consumer
StreamNext ==
    /\ chan # <<>>
    /\ LET r == logs_middleware(mwDone, Head(chan))
       IN  /\ chan' = Tail(chan)
           /\ mwDone' = r.done
           /\ emitted' = emitted \o r.emit
           /\ delivered' = delivered \o r.fwd
           /\ exit_tx' = ServeEvent(exit_tx, r.fwd)
           /\ stepHist' = stepHist \o ListenerSteps(listener, r.emit)
           /\ done_tx' = ListenerDoneTx(listener, done_tx, r.emit)
    /\ UNCHANGED <<proc, out, err, rdOut, rdErr, supPc, waitStatus, kill_chan,
                   handles, killCalls, lastKill, startKills, streamEnded>>
    /\ UNCHANGED <<needsMigration, listener, sqlite_done, conn, ltPc, hcTask,
                   hcwPc, hcwRes, status, stateChild, initPc, loadingWindow,
                   ack, mainCreates, mainWindows, workRuns>>
    /\ UNCHANGED callVars
    /\ UNCHANGED unitVars

\* every tx is dropped and the channel is empty: the stream ends, the
\* for_each future completes and drops its closure (and exit_tx with it)
StreamEnd ==
    /\ ~streamEnded
    /\ chan = <<>> /\ ~rdOut /\ ~rdErr /\ supPc = "done"
    /\ streamEnded' = TRUE
    /\ exit_tx' = IF exit_tx = "pending" THEN "dropped" ELSE exit_tx
    /\ UNCHANGED <<proc, out, err, rdOut, rdErr, chan, supPc, waitStatus,
                   kill_chan, handles, killCalls, lastKill, startKills, mwDone,
                   emitted, delivered>>
    /\ UNCHANGED <<orchVars, callVars>>
    /\ UNCHANGED unitVars

\* --------------------------------------------------------------- SpecMw
\* logs_middleware alone, over a stream of events given to it.
MaxMwEvents == 3

\* stdout lines: plain text, progress in and out of the range of u8, the
\* completion line, a prefixed line that is neither, bytes that are not UTF-8
MwLines == {Plain, Mig(42), Mig(256), MigDone, MigJunk, BadUtf8}

MwEvents ==
    {Stdout(l) : l \in MwLines} \cup {Stderr(Plain), Stderr(Mig(42)), Terminated, Error}

\* stream.filter_map(closure): the closure is given the next event
InterceptorNext ==
    /\ mwPos < Len(mwIn)
    /\ LET r == logs_middleware(mwDone, mwIn[mwPos + 1])
       IN  /\ mwDone' = r.done
           /\ emitted' = emitted \o r.emit
           /\ delivered' = delivered \o r.fwd
    /\ mwPos' = mwPos + 1
    /\ UNCHANGED <<mwIn, resVars, hcVars, wrVars, winVars, credVars>>
    /\ UNCHANGED <<proc, out, err, rdOut, rdErr, chan, supPc, waitStatus,
                   kill_chan, handles, killCalls, lastKill, startKills,
                   streamEnded, exit_tx>>
    /\ UNCHANGED <<orchVars, callVars>>

\* Result<ServerReadyData, String> as sent through server_ready_tx; "pending"
\* while nothing was sent, "canceled" when the sender was dropped unsent.
\* err is the {err} that the message "Failed to spawn OpenCode Server
\* ({err}). Logs:\n{logs}" is formatted around.
St(t, u, p, e) == [tag |-> t, url |-> u, password |-> p, err |-> e]
Pending     == St("pending", "", "", "")
Canceled    == St("canceled", "", "", "")
Ready(u, p) == St("ready", u, p, "")
Failed(e)   == St("failed", "", "", e)

TimedOut   == "Health check timed out"
Terminated_before_healthy == "Sidecar terminated before becoming healthy"

Callers == 1..NumCallers

NoRet == St("none", "", "", "")

\* the orchestrator's variables while no initialize runs
IdleOrch ==
    /\ needsMigration = FALSE
    /\ stepHist = <<"ServerWaiting">>
    /\ listener = FALSE /\ done_tx = "none" /\ sqlite_done = "none"
    /\ conn = "none" /\ ltPc = "none"
    /\ hcTask = "none" /\ hcwPc = "none" /\ hcwRes = "none"
    /\ status = Pending /\ stateChild = FALSE
    /\ initPc = "none" /\ loadingWindow = "none" /\ ack = FALSE
    /\ mainCreates = 0 /\ mainWindows = 0 /\ workRuns = 0
    /\ cPc = [c \in Callers |-> "idle"]
    /\ seen = [c \in Callers |-> 0]
    /\ sent = <<>>
    /\ joinIdx = 0
    /\ ret = [c \in Callers |-> NoRet]

\* what setup_server_connection finds: a URL in the settings store, how
\* the run of the CLI for its configuration ends, the probes of the custom
\* URL with the answers to the retry dialog, the probe of the local URL
Found(s, c, ps, l) == [store |-> s, cfg |-> c, probes |-> ps, localHealthy |-> l]

NoFound == Found(FALSE, "no_server", <<>>, FALSE)

\* Option<String> of get_saved_server_url: which URL, and the runs of get_config
Saved(u, n) == [url |-> u, cfgRuns |-> n]

NoSaved == Saved("none", 0)

NoConnection == [kind |-> "none", url |-> "", password |-> ""]

\* Option<i32>
None    == [some |-> FALSE, val |-> 0]
Some(v) == [some |-> TRUE, val |-> v]

\* TerminatedPayload { code, signal }
TerminatedPayload(c, sg) == [code |-> c, signal |-> sg]

\* the oneshot channel (exit_tx, exit_rx) of serve
Exit(st, p) == [state |-> st, payload |-> p]
ExitPending    == Exit("pending", TerminatedPayload(None, None))
ExitDropped    == Exit("dropped", TerminatedPayload(None, None))
ExitSent(p)    == Exit("sent", p)

\* Result<(), String> of the health-check task
HcResult(st, m) == [state |-> st, message |-> m]
HcRunning == HcResult("running", "")
HcOk      == HcResult("ok", "")
HcErr(m)  == HcResult("err", m)

\* logs_middleware is not run alone
IdleMw == mwIn = <<>> /\ mwPos = 0

\* setup_server_connection is not run alone
IdleRes == resIn = NoFound /\ resOut = NoConnection /\ resSaved = NoSaved

\* the task of spawn_local_server is not run alone
IdleHc ==
    /\ hcProbes = 0 /\ hcHealthy = FALSE
    /\ hcExit = ExitPending /\ hcOut = HcRunning

\* the output of the process is not recorded
IdleWr == wOut = <<>> /\ wErr = <<>>

\* Option<String>
NoneStr    == [some |-> FALSE, s |-> ""]
SomeStr(t) == [some |-> TRUE, s |-> t]

\* SessionEnv::default(); `display` is read by no function and is left out
DefaultEnv ==
    [wayland_display |-> FALSE, xdg_session_type |-> NoneStr,
     xdg_current_desktop |-> NoneStr, xdg_session_desktop |-> NoneStr,
     desktop_session |-> NoneStr, oc_allow_wayland |-> NoneStr,
     oc_force_x11 |-> NoneStr, oc_force_wayland |-> NoneStr,
     oc_linux_decorations |-> NoneStr, oc_force_decorations |-> NoneStr,
     oc_no_decorations |-> NoneStr, i3_sock |-> FALSE]

\* a SessionEnv given by the fields that select_backend reads
SessionEnv(wd, st, fx, fw, aw) ==
    [DefaultEnv EXCEPT !.wayland_display = wd, !.xdg_session_type = st,
                       !.oc_force_x11 = fx, !.oc_force_wayland = fw,
                       !.oc_allow_wayland = aw]

\* a SessionEnv given by the fields that use_decorations reads
DecorationEnv(wd, st, cd, sd, ds, ld, fd, nd, i3) ==
    [DefaultEnv EXCEPT !.wayland_display = wd, !.xdg_session_type = st,
                       !.xdg_current_desktop = cd, !.xdg_session_desktop = sd,
                       !.desktop_session = ds, !.oc_linux_decorations = ld,
                       !.oc_force_decorations = fd, !.oc_no_decorations = nd,
                       !.i3_sock = i3]

\* Option<BackendDecision>, and "pending" while select_backend has not returned
BackendResult(st, sm, b, n) == [state |-> st, some |-> sm, backend |-> b, note |-> n]
BackendPending     == BackendResult("pending", FALSE, "", "")
NoDecision         == BackendResult("returned", FALSE, "", "")
BackendDecision(b, n) == BackendResult("returned", TRUE, b, n)

\* the bool use_decorations returns, and "pending" while it has not
DecorationResult(st, v) == [state |-> st, value |-> v]
DecorationPending == DecorationResult("pending", FALSE)
Decorated(v)      == DecorationResult("returned", v)

\* select_backend and use_decorations are not run alone
IdleWin ==
    /\ winEnv = DefaultEnv /\ winPrefer = FALSE
    /\ winOut = BackendPending /\ decOut = DecorationPending

\* a server listening at a URL: whether it answers, and the password its
\* health endpoint requires, if any
Server(u, a) == [up |-> u, auth |-> a]
NoServer == Server(FALSE, NoneStr)

\* what a launch finds: whether a custom URL is configured, the servers at
\* the custom and at the local URL, the uuid that Uuid::new_v4() returns
CredInput(cu, c, l, pw) == [customUrl |-> cu, custom |-> c, local |-> l, uuid |-> pw]
NoCredInput == CredInput(FALSE, NoServer, NoServer, "")

\* one call of check_health(url, password)
HealthProbe(u, p) == [url |-> u, password |-> p]

\* the password is not followed alone
IdleCred ==
    /\ credIn = NoCredInput /\ credPc = "none" /\ credConn = NoConnection
    /\ credEnv = NoneStr /\ credTask = NoneStr
    /\ credProbes = <<>> /\ credOut = Pending

IdleUnits == IdleMw /\ IdleRes /\ IdleHc /\ IdleWr /\ IdleWin /\ IdleCred

\* ------------------------------------------------------------- SpecSup
\* The state right after spawn_command returned Ok((event_stream, child)).
NoKill == [pending |-> FALSE, ok |-> TRUE, why |-> "none"]

InitSup ==
    /\ proc = "running"
    /\ out \in SeqsUpTo(StdoutLines, MaxOutLines)
    /\ err \in SeqsUpTo(StderrLines, MaxErrLines)
    /\ rdOut = TRUE /\ rdErr = TRUE
    /\ chan = <<>>
    /\ supPc = "try_wait" /\ waitStatus = "none"
    /\ kill_chan = 0 /\ handles = 1
    /\ killCalls = 0 /\ lastKill = NoKill /\ startKills = 0
    /\ mwDone = FALSE /\ emitted = <<>> /\ delivered = <<>>
    /\ streamEnded = FALSE
    /\ exit_tx = "pending"
    /\ IdleOrch
    /\ IdleMw /\ IdleRes /\ IdleHc /\ IdleWin /\ IdleCred
    /\ wOut = out /\ wErr = err

NextSup ==
    \/ ProcExit
    \/ StdoutReader
    \/ StderrReader
    \/ SupervisorTryWait
    \/ SupervisorSelectKill
    \/ SupervisorSelectSleep
    \/ SupervisorSend
    \/ ClientKill
    \/ ClientDrop
    \/ StreamNext
    \/ StreamEnd

SpecSup == InitSup /\ [][NextSup]_vars

\* --------------------------------------------------------- SpecSupFair
\* spawn_command alone under a fair scheduler: the tokio runtime runs every
\* task that can make a step, the consumer keeps polling the stream, and a
\* process that was sent a kill signal exits (one that was not may run on).
KilledProcExit == startKills > 0 /\ ProcExit

FairSup ==
    /\ WF_vars(StdoutReader)
    /\ WF_vars(StderrReader)
    /\ WF_vars(SupervisorTryWait)
    /\ WF_vars(SupervisorSelectKill)
    /\ WF_vars(SupervisorSelectSleep)
    /\ WF_vars(SupervisorSend)
    /\ WF_vars(StreamNext)
    /\ WF_vars(StreamEnd)
    /\ WF_vars(KilledProcExit)

SpecSupFair == InitSup /\ [][NextSup]_vars /\ FairSup

\* ------------------------------------------------------------- SpecOrd
\* spawn_command alone, with a process that writes two different lines to
\* stdout and two to stderr.
TwoLines == <<Plain, Other>>

InitOrd ==
    /\ proc = "running"
    /\ out = TwoLines /\ err = TwoLines
    /\ rdOut = TRUE /\ rdErr = TRUE
    /\ chan = <<>>
    /\ supPc = "try_wait" /\ waitStatus = "none"
    /\ kill_chan = 0 /\ handles = 1
    /\ killCalls = 0 /\ lastKill = NoKill /\ startKills = 0
    /\ mwDone = FALSE /\ emitted = <<>> /\ delivered = <<>>
    /\ streamEnded = FALSE
    /\ exit_tx = "pending"
    /\ IdleOrch
    /\ IdleMw /\ IdleRes /\ IdleHc /\ IdleWin /\ IdleCred
    /\ wOut = out /\ wErr = err

SpecOrd == InitOrd /\ [][NextSup]_vars

\* -------------------------------------------------------------- SpecMw
\* no process, task or channel of spawn_command takes part
IdleSup ==
    /\ proc = "none" /\ out = <<>> /\ err = <<>>
    /\ rdOut = FALSE /\ rdErr = FALSE
    /\ chan = <<>>
    /\ supPc = "none" /\ waitStatus = "none"
    /\ kill_chan = 0 /\ handles = 0
    /\ killCalls = 0 /\ lastKill = NoKill /\ startKills = 0
    /\ streamEnded = FALSE
    /\ exit_tx = "none"

\* logs_middleware(app, stream): let mut done = false
InitMw ==
    /\ mwIn \in SeqsUpTo(MwEvents, MaxMwEvents)
    /\ mwPos = 0
    /\ mwDone = FALSE /\ emitted = <<>> /\ delivered = <<>>
    /\ IdleRes /\ IdleHc /\ IdleWr /\ IdleWin /\ IdleCred
    /\ IdleSup
    /\ IdleOrch

NextMw == InterceptorNext

SpecMw == InitMw /\ [][NextMw]_vars

\* =================================================================== Spec
\* initialize (lib.rs), its loading task, the health check of the spawned
\* sidecar server and the callers of await_initialization.

\* the watch channel (init_tx, init_rx)
step    == stepHist[Len(stepHist)]
version == Len(stepHist)
\* every sender is gone: initialize ended and the listener's clone is dropped
WatchClosed == initPc = "end" /\ ~listener

supFrame == UNCHANGED <<out, err, rdOut, rdErr, chan, supPc, waitStatus,
                        startKills, mwDone, emitted, delivered, streamEnded>>

\* ---------------------------------------------- setup_server_connection
\* The connection setup_server_connection returns, from what it finds: a
\* saved custom URL, the outcome of check_health_or_ask_retry on it, the
\* outcome of check_health on the local URL.
\* (the password of CLI is the uuid generated for the spawned server)
Connection(k, u, p) == [kind |-> k, url |-> u, password |-> p]

\* (mutant) a configured custom URL is taken without the health check
ServerConnectionUnverified(custom, customHealthy, localHealthy) ==
    IF custom THEN Connection("Existing", "custom", "none")
    ELSE IF localHealthy THEN Connection("Existing", "local", "none")
    ELSE Connection("CLI", "local", "uuid")

ServerConnection(custom, customHealthy, localHealthy) ==
    IF custom /\ customHealthy THEN Connection("Existing", "custom", "none")
    ELSE IF localHealthy THEN Connection("Existing", "local", "none")
    ELSE Connection("CLI", "local", "uuid")

\* check_health_or_ask_retry over the probes of the custom URL: each probe
\* is healthy or not, and after a probe that is not the user answers the
\* dialog with Retry or with Start Local. True at the first healthy probe,
\* false at the first Start Local.
RECURSIVE check_health_or_ask_retry(_)
check_health_or_ask_retry(probes) ==
    IF probes = <<>> THEN FALSE
    ELSE IF Head(probes).healthy THEN TRUE
    ELSE IF Head(probes).retry THEN check_health_or_ask_retry(Tail(probes))
    ELSE FALSE

\* get_saved_server_url: the URL of the settings store if there is one;
\* else get_config runs the CLI ("debug config") to its end, and the URL is
\* the one its configuration gives, if any
SavedServerUrl(store, cfgUrl) == store \/ cfgUrl

\* how the run of the CLI for its configuration can end: spawn_command
\* fails; the collected stdout is not JSON of the shape of Config; it is,
\* with no `server`; with a `server` that has no `port`; with server.port
ConfigProbes == {"spawn_failed", "not_json", "no_server", "no_port", "port"}

\* Option<Config>, with Config { server: Option<ServerConfig { port, .. }> }
Config(sm, sv, pt) == [some |-> sm, server |-> sv, port |-> pt]

\* get_config: spawn_command(..).ok()?, then serde_json::from_str(..).ok()
get_config(probe) ==
    IF probe \in {"spawn_failed", "not_json"} THEN Config(FALSE, FALSE, FALSE)
    ELSE Config(TRUE, probe # "no_server", probe = "port")

\* (mutant) a configuration with no port gives a URL with a default port
get_server_url_from_config_default(config) == config.server

\* get_server_url_from_config: config.server.as_ref()?, server.port?
get_server_url_from_config(config) == config.server /\ config.port

\* get_saved_server_url: the URL of the settings store comes first and ends
\* the function; else get_config is run and its configuration is looked at
get_saved_server_url(store, probe) ==
    IF store THEN Saved("saved", 0)
    ELSE LET cli_config == get_config(probe)
         IN  IF cli_config.some /\ get_server_url_from_config(cli_config)
             THEN Saved("config", 1)
             ELSE Saved("none", 1)

\* (mutant) the Existing arm does not send the result
ExistingNotPublished(url) == Pending

\* ServerConnection::Existing { url }: Ok(ServerReadyData { url, password: None })
ExistingReady(url) == Ready(url, "none")

\* what the CLI run by get_config prints about a migration: nothing, or the
\* completion line (its stream goes through logs_middleware like any other)
ConfigOutputs == {<<>>, <<MigDone>>}

\* what the sidecar server prints on stdout when it has a migration to run:
\* nothing (it dies first, or the migration was run by get_config's CLI),
\* a progress line, the completion line
SidecarOutputs == {<<>>, <<Mig(10)>>, <<MigDone>>}

\* the output of a whole migration: a progress line, then the completion line
MigrationOutput == <<Mig(10), MigDone>>

\* the progress events logs_middleware emits over the stdout lines of a run
RECURSIVE MiddlewareEmits(_, _)
MiddlewareEmits(done, lines) ==
    IF lines = <<>> THEN <<>>
    ELSE LET r == logs_middleware(done, Stdout(Head(lines)))
         IN  r.emit \o MiddlewareEmits(r.done, Tail(lines))

\* loading_task up to its first await after setup_server_connection:
\* Existing sends Ready at once; CLI (spawn_local_server: cli::serve and the
\* health-check task) waits for sqlite_done if there is one, else spawns
\* cli_health_check. serve panics when spawn_command fails.
LoadingTaskConnect ==
    /\ ltPc = "connect"
    /\ \E store, cfgUrl, customHealthy, localHealthy, spawnOk \in BOOLEAN :
       \E cfgOut \in IF needsMigration /\ ~store /\ out = <<>>
                     THEN ConfigOutputs ELSE {<<>>} :
         LET c == ServerConnection(SavedServerUrl(store, cfgUrl),
                                   customHealthy, localHealthy)
             e == MiddlewareEmits(FALSE, cfgOut)
         IN  /\ emitted' = emitted \o e
             /\ stepHist' = stepHist \o ListenerSteps(listener, e)
             /\ done_tx' = ListenerDoneTx(listener, done_tx, e)
             /\ IF c.kind = "Existing"
                THEN /\ conn' = "Existing"
                     /\ status' = ExistingReady(c.url)
                     /\ ltPc' = "await_ready"
                     /\ out' = <<>>
                     /\ UNCHANGED <<proc, rdOut, rdErr, supPc, handles,
                                    exit_tx, hcTask, hcwPc>>
                ELSE IF ~spawnOk
                THEN /\ conn' = "none"
                     /\ status' = Canceled
                     /\ ltPc' = "panicked"
                     /\ out' = <<>>
                     /\ UNCHANGED <<proc, rdOut, rdErr, supPc, handles,
                                    exit_tx, hcTask, hcwPc>>
                ELSE /\ conn' = "CLI"
                     /\ proc' = "running" /\ UNCHANGED out
                     /\ rdOut' = TRUE /\ rdErr' = TRUE
                     /\ supPc' = "try_wait" /\ handles' = 1
                     /\ exit_tx' = "pending"
                     /\ hcTask' = "running"
                     /\ IF sqlite_done # "none"
                        THEN ltPc' = "gate" /\ UNCHANGED hcwPc
                        ELSE ltPc' = "await_ready" /\ hcwPc' = "waiting"
                     /\ UNCHANGED status
    /\ UNCHANGED <<err, chan, waitStatus, kill_chan, killCalls, lastKill,
                   startKills, mwDone, delivered, streamEnded>>
    /\ UNCHANGED <<needsMigration, listener, sqlite_done,
                   hcwRes, stateChild, initPc, loadingWindow, ack, mainCreates, mainWindows>>
    /\ workRuns' = workRuns + 1
    /\ UNCHANGED callVars
    /\ UNCHANGED unitVars

\* the task spawned for done_rx: once done_tx has sent, app.unlisten(id);
\* the JoinHandle sqlite_done resolves when it has run
SqliteDoneTask ==
    /\ sqlite_done = "pending"
    /\ done_tx = "sent"
    /\ listener' = FALSE
    /\ sqlite_done' = "joined"
    /\ UNCHANGED <<supVars, callVars>>
    /\ UNCHANGED <<needsMigration, stepHist, done_tx, conn, ltPc, hcTask, hcwPc,
                   hcwRes, status, stateChild, initPc, loadingWindow, ack,
                   mainCreates, mainWindows, workRuns>>
    /\ UNCHANGED unitVars

\* (mutant) the loading task does not wait for sqlite_done
GateOpenAlways(sd) == TRUE

\* the gate is open when sqlite_done_rx.await returns
GateOpen(sd) == sd = "joined"

\* let _ = sqlite_done_rx.await; tokio::spawn(cli_health_check)
LoadingTaskGate ==
    /\ ltPc = "gate"
    /\ GateOpen(sqlite_done)
    /\ hcwPc' = "waiting"
    /\ ltPc' = "await_ready"
    /\ UNCHANGED <<supVars, callVars>>
    /\ UNCHANGED <<needsMigration, stepHist, listener, done_tx, sqlite_done,
                   conn, hcTask, hcwRes, status, stateChild, initPc,
                   loadingWindow, ack, mainCreates, mainWindows, workRuns>>
    /\ UNCHANGED unitVars

\* let _ = server_ready_rx.await
\* (mutant) loading_task does not await server_ready_rx before it ends
LoadingTaskReadyEarly ==
    /\ ltPc = "await_ready"
    /\ ltPc' = "finished"
    /\ UNCHANGED <<supVars, callVars>>
    /\ UNCHANGED <<needsMigration, stepHist, listener, done_tx, sqlite_done,
                   conn, hcTask, hcwPc, hcwRes, status, stateChild, initPc,
                   loadingWindow, ack, mainCreates, mainWindows, workRuns>>
    /\ UNCHANGED unitVars

LoadingTaskReady ==
    /\ ltPc = "await_ready"
    /\ status # Pending
    /\ ltPc' = "finished"
    /\ UNCHANGED <<supVars, callVars>>
    /\ UNCHANGED <<needsMigration, stepHist, listener, done_tx, sqlite_done,
                   conn, hcTask, hcwPc, hcwRes, status, stateChild, initPc,
                   loadingWindow, ack, mainCreates, mainWindows, workRuns>>
    /\ UNCHANGED unitVars

\* ------------------------------------------ spawn_local_server: the task
\* (mutant) a probe that succeeds after the result was published publishes
\* Ready over it
HealthCheckReadyRepublishes ==
    /\ hcTask = "running"
    /\ proc = "running"
    /\ hcTask' = "ok"
    /\ status' = IF hcwPc = "done" THEN Ready("local", "uuid") ELSE status
    /\ UNCHANGED <<supVars, callVars>>
    /\ UNCHANGED <<needsMigration, stepHist, listener, done_tx, sqlite_done,
                   conn, ltPc, hcwPc, hcwRes, stateChild, initPc,
                   loadingWindow, ack, mainCreates, mainWindows, workRuns>>
    /\ UNCHANGED unitVars

\* the `ready` branch of the select: a probe of the running server succeeds
HealthCheckReady ==
    /\ hcTask = "running"
    /\ proc = "running"
    /\ hcTask' = "ok"
    /\ UNCHANGED <<supVars, callVars>>
    /\ UNCHANGED <<needsMigration, stepHist, listener, done_tx, sqlite_done,
                   conn, ltPc, hcwPc, hcwRes, status, stateChild, initPc,
                   loadingWindow, ack, mainCreates, mainWindows, workRuns>>
    /\ UNCHANGED unitVars

\* the `terminated` branch: exit.await resolved (payload sent, or sender dropped)
HealthCheckTerminated ==
    /\ hcTask = "running"
    /\ exit_tx \in {"sent", "dropped"}
    /\ hcTask' = "terminated"
    /\ UNCHANGED <<supVars, callVars>>
    /\ UNCHANGED <<needsMigration, stepHist, listener, done_tx, sqlite_done,
                   conn, ltPc, hcwPc, hcwRes, status, stateChild, initPc,
                   loadingWindow, ack, mainCreates, mainWindows, workRuns>>
    /\ UNCHANGED unitVars

\* ------------------------------------------------- cli_health_check
\* Ok(Ok(Ok(()))): set_child(Some(child))
HealthCheckOk ==
    /\ hcwPc = "waiting"
    /\ hcTask = "ok"
    /\ hcwRes' = "ok"
    /\ stateChild' = TRUE
    /\ hcwPc' = "publish"
    /\ UNCHANGED <<supVars, callVars>>
    /\ UNCHANGED <<needsMigration, stepHist, listener, done_tx, sqlite_done,
                   conn, ltPc, hcTask, status, initPc, loadingWindow, ack,
                   mainCreates, mainWindows, workRuns>>
    /\ UNCHANGED unitVars

\* (mutant) the error path forgets child.kill()
FailWithoutKill(res) ==
    /\ hcwRes' = res
    /\ UNCHANGED <<kill_chan, lastKill, killCalls>>
    /\ handles' = 0
    /\ hcwPc' = "publish"

\* an error: child.kill(), and the child is dropped as the block returns Err
FailWith(res) ==
    /\ hcwRes' = res
    /\ CommandChild_kill
    /\ handles' = 0
    /\ hcwPc' = "publish"

\* Ok(Ok(Err(e))): the health-check task reported the termination
HealthCheckFailed ==
    /\ hcwPc = "waiting"
    /\ hcTask = "terminated"
    /\ FailWith("terminated")
    /\ UNCHANGED <<proc, exit_tx>> /\ supFrame
    /\ UNCHANGED callVars
    /\ UNCHANGED <<needsMigration, stepHist, listener, done_tx, sqlite_done,
                   conn, ltPc, hcTask, status, stateChild, initPc,
                   loadingWindow, ack, mainCreates, mainWindows, workRuns>>
    /\ UNCHANGED unitVars

\* Err(_): timeout(Duration::from_secs(30), health_check.0) elapsed first
HealthCheckTimeout ==
    /\ hcwPc = "waiting"
    /\ hcTask = "running"
    /\ FailWith("timeout")
    /\ UNCHANGED <<proc, exit_tx>> /\ supFrame
    /\ UNCHANGED callVars
    /\ UNCHANGED <<needsMigration, stepHist, listener, done_tx, sqlite_done,
                   conn, ltPc, hcTask, status, stateChild, initPc,
                   loadingWindow, ack, mainCreates, mainWindows, workRuns>>
    /\ UNCHANGED unitVars

\* the value the block returns
HealthCheckResult(res) ==
    IF res = "ok" THEN Ready("local", "uuid")
    ELSE IF res = "timeout" THEN Failed(TimedOut)
    ELSE Failed(Terminated_before_healthy)

\* .map(move |res| server_ready_tx.send(res))
HealthCheckPublish ==
    /\ hcwPc = "publish"
    /\ status' = HealthCheckResult(hcwRes)
    /\ hcwPc' = "done"
    /\ UNCHANGED <<supVars, callVars>>
    /\ UNCHANGED <<needsMigration, stepHist, listener, done_tx, sqlite_done,
                   conn, ltPc, hcTask, hcwRes, stateChild, initPc,
                   loadingWindow, ack, mainCreates, mainWindows, workRuns>>
    /\ UNCHANGED unitVars

\* ------------------------------------------------------- kill_sidecar
\* takes the child out of ServerState and kills it; nothing when it is None
\* (mutant) the child is looked at but not taken: as_ref() for take()
kill_sidecar_peek ==
    /\ IF stateChild
       THEN /\ CommandChild_kill
            /\ UNCHANGED <<stateChild, handles>>
       ELSE UNCHANGED <<stateChild, kill_chan, lastKill, killCalls, handles>>
    /\ UNCHANGED <<proc, exit_tx>> /\ supFrame
    /\ UNCHANGED callVars
    /\ UNCHANGED <<needsMigration, stepHist, listener, done_tx, sqlite_done,
                   conn, ltPc, hcTask, hcwPc, hcwRes, status, initPc,
                   loadingWindow, ack, mainCreates, mainWindows, workRuns>>
    /\ UNCHANGED unitVars

\* (mutant) kill() is called twice on the child taken
kill_sidecar_twice ==
    /\ IF stateChild
       THEN /\ stateChild' = FALSE
            /\ kill_chan' = TrySend(kill_chan, supPc = "done").chan
            /\ lastKill' = [pending |-> TRUE, ok |-> FALSE, why |-> "full"]
            /\ killCalls' = killCalls + 2
            /\ handles' = 0
       ELSE UNCHANGED <<stateChild, kill_chan, lastKill, killCalls, handles>>
    /\ UNCHANGED <<proc, exit_tx>> /\ supFrame
    /\ UNCHANGED callVars
    /\ UNCHANGED <<needsMigration, stepHist, listener, done_tx, sqlite_done,
                   conn, ltPc, hcTask, hcwPc, hcwRes, status, initPc,
                   loadingWindow, ack, mainCreates, mainWindows, workRuns>>
    /\ UNCHANGED unitVars

kill_sidecar ==
    /\ IF stateChild
       THEN /\ stateChild' = FALSE
            /\ CommandChild_kill
            /\ handles' = 0
       ELSE UNCHANGED <<stateChild, kill_chan, lastKill, killCalls, handles>>
    /\ UNCHANGED <<proc, exit_tx>> /\ supFrame
    /\ UNCHANGED callVars
    /\ UNCHANGED <<needsMigration, stepHist, listener, done_tx, sqlite_done,
                   conn, ltPc, hcTask, hcwPc, hcwRes, status, initPc,
                   loadingWindow, ack, mainCreates, mainWindows, workRuns>>
    /\ UNCHANGED unitVars

\* ------------------------------------------------- MainWindow::create
\* (mutant) a window is built whether or not one with the label exists
MainWindow_create_always(windows) == windows + 1

\* MainWindow::create: the window labelled "main" is focused and returned
\* when it exists, built otherwise; the result is the number of main windows
MainWindow_create(windows) == IF windows > 0 THEN windows ELSE windows + 1

\* ------------------------------------------- initialize, after the spawn
\* (mutant) initialize does not wait for loading_task before it sends Done
LoadingTaskNotAwaited == TRUE

LoadingTaskEnded == ltPc \in {"finished", "panicked"}

\* the else branch: no migration needed, or loading_task ended within 1 s
InitializeShowMain ==
    /\ initPc = "race"
    /\ ~needsMigration \/ LoadingTaskEnded
    /\ mainCreates' = mainCreates + 1
    /\ mainWindows' = MainWindow_create(mainWindows)
    /\ initPc' = "await_loading"
    /\ UNCHANGED <<supVars, callVars>>
    /\ UNCHANGED <<needsMigration, stepHist, listener, done_tx, sqlite_done,
                   conn, ltPc, hcTask, hcwPc, hcwRes, status, stateChild,
                   loadingWindow, ack>>
    /\ UNCHANGED workRuns
    /\ UNCHANGED unitVars

\* timeout(1 s, loading_task) elapsed: LoadingWindow::create, sleep(1 s)
InitializeShowLoading ==
    /\ initPc = "race"
    /\ needsMigration /\ ~LoadingTaskEnded
    /\ loadingWindow' = "shown"
    /\ initPc' = "await_loading"
    /\ UNCHANGED <<supVars, callVars>>
    /\ UNCHANGED <<needsMigration, stepHist, listener, done_tx, sqlite_done,
                   conn, ltPc, hcTask, hcwPc, hcwRes, status, stateChild,
                   ack, mainCreates, mainWindows, workRuns>>
    /\ UNCHANGED unitVars

\* loading_task.await returned: init_tx.send(Done); without a loading window
\* MainWindow::create follows at once and initialize ends
InitializeDone ==
    /\ initPc = "await_loading"
    /\ LoadingTaskEnded
    /\ stepHist' = Append(stepHist, "Done")
    /\ IF loadingWindow = "shown"
       THEN initPc' = "ack" /\ UNCHANGED <<mainCreates, mainWindows>>
       ELSE /\ initPc' = "end" /\ mainCreates' = mainCreates + 1
            /\ mainWindows' = MainWindow_create(mainWindows)
    /\ UNCHANGED <<supVars, callVars>>
    /\ UNCHANGED <<needsMigration, listener, done_tx, sqlite_done, conn, ltPc,
                   hcTask, hcwPc, hcwRes, status, stateChild, loadingWindow,
                   ack>>
    /\ UNCHANGED workRuns
    /\ UNCHANGED unitVars

\* the loading window's page emits LoadingWindowComplete
LoadingWindowComplete ==
    /\ loadingWindow = "shown"
    /\ ~ack
    /\ ack' = TRUE
    /\ UNCHANGED <<supVars, callVars>>
    /\ UNCHANGED <<needsMigration, stepHist, listener, done_tx, sqlite_done,
                   conn, ltPc, hcTask, hcwPc, hcwRes, status, stateChild,
                   initPc, loadingWindow, mainCreates, mainWindows, workRuns>>
    /\ UNCHANGED unitVars

\* loading_window_complete.await returned: MainWindow::create, close
InitializeFinish ==
    /\ initPc = "ack"
    /\ ack
    /\ mainCreates' = mainCreates + 1
    /\ mainWindows' = MainWindow_create(mainWindows)
    /\ loadingWindow' = "closed"
    /\ initPc' = "end"
    /\ UNCHANGED <<supVars, callVars>>
    /\ UNCHANGED <<needsMigration, stepHist, listener, done_tx, sqlite_done,
                   conn, ltPc, hcTask, hcwPc, hcwRes, status, stateChild, ack>>
    /\ UNCHANGED workRuns
    /\ UNCHANGED unitVars

\* ------------------------------------------------ await_initialization
\* init_state.current.clone(): the clone has marked seen what the stored
\* receiver has, and that one never marks anything: the initial version
CloneSeen == 1

\* the call whose events channel is recorded in sent (every call runs the
\* same code, and no call acts on another)
Observed == CHOOSE c \in Callers : \A d \in Callers : c <= d

\* let e = *rx.borrow(); events.send(e)
FirstSend(s) == <<s>>

\* let step = *rx.borrow_and_update(); events.send(step)
NextSend(s) == <<s>>

\* (the calls are numbered in the order in which they are made)
AwaitJoin(c) ==
    /\ cPc[c] = "idle"
    /\ \A d \in Callers : d < c => cPc[d] # "idle"
    /\ seen' = [seen EXCEPT ![c] = CloneSeen]
    /\ sent' = IF c = Observed THEN sent \o FirstSend(step) ELSE sent
    /\ joinIdx' = IF c = Observed THEN Len(stepHist) ELSE joinIdx
    /\ cPc' = [cPc EXCEPT ![c] = "loop"]
    /\ UNCHANGED <<supVars, orchVars, ret>>
    /\ UNCHANGED unitVars

\* while rx.changed().await.is_ok(): changed() returns Ok when there is a
\* version not yet seen (then borrow_and_update, events.send(step), break on
\* Done), and Err when there is none and every sender is dropped (the loop
\* ends)
AwaitChanged(c) ==
    /\ cPc[c] = "loop"
    /\ \/ /\ seen[c] # version
          /\ seen' = [seen EXCEPT ![c] = version]
          /\ sent' = IF c = Observed THEN sent \o NextSend(step) ELSE sent
          /\ cPc' = [cPc EXCEPT ![c] = IF step = "Done" THEN "events_done" ELSE "loop"]
       \/ /\ seen[c] = version
          /\ WatchClosed
          /\ cPc' = [cPc EXCEPT ![c] = "events_done"]
          /\ UNCHANGED <<seen, sent>>
    /\ UNCHANGED <<supVars, orchVars, joinIdx, ret>>
    /\ UNCHANGED unitVars

\* (mutant) the receiver is not shared: the first call to return takes the
\* value, the others find the channel canceled
SharedStatusTaken(c) ==
    IF \E d \in Callers \ {c} : cPc[d] = "returned" THEN Canceled ELSE status

\* what state.status.clone() resolves to for caller c
SharedStatus(c) == status

\* .map_err(|_| "Failed to get server status")?
AwaitResult(st) == IF st = Canceled THEN Failed("Failed to get server status") ELSE st

\* future::join(status, events) is complete
\* (mutant) the call returns as soon as the status is resolved, whatever the
\* events future does: select for join
AwaitReturnOnResult(c) ==
    /\ cPc[c] \in {"loop", "events_done"}
    /\ SharedStatus(c) # Pending
    /\ ret' = [ret EXCEPT ![c] = AwaitResult(SharedStatus(c))]
    /\ cPc' = [cPc EXCEPT ![c] = "returned"]
    /\ UNCHANGED <<supVars, orchVars, seen, sent, joinIdx>>
    /\ UNCHANGED unitVars

AwaitReturn(c) ==
    /\ cPc[c] = "events_done"
    /\ SharedStatus(c) # Pending
    /\ ret' = [ret EXCEPT ![c] = AwaitResult(SharedStatus(c))]
    /\ cPc' = [cPc EXCEPT ![c] = "returned"]
    /\ UNCHANGED <<supVars, orchVars, seen, sent, joinIdx>>
    /\ UNCHANGED unitVars

\* ------------------------------------------------------------------ Spec
\* The state of initialize when loading_task has been spawned: migrate says
\* whether the database file is missing, srvOut is what the sidecar will
\* print on stdout if it is spawned.

InitializeState(migrate, srvOut) ==
    /\ needsMigration = migrate
    /\ stepHist = <<"ServerWaiting">>
    /\ listener = needsMigration
    /\ done_tx = IF needsMigration THEN "pending" ELSE "none"
    /\ sqlite_done = IF needsMigration THEN "pending" ELSE "none"
    /\ conn = "none" /\ ltPc = "connect"
    /\ hcTask = "none" /\ hcwPc = "none" /\ hcwRes = "none"
    /\ status = Pending /\ stateChild = FALSE
    /\ initPc = "race" /\ loadingWindow = "none" /\ ack = FALSE
    /\ mainCreates = 0 /\ mainWindows = 0 /\ workRuns = 0
    /\ cPc = [c \in Callers |-> "idle"]
    /\ seen = [c \in Callers |-> 0]
    /\ sent = <<>>
    /\ joinIdx = 0
    /\ ret = [c \in Callers |-> NoRet]
    /\ proc = "none"
    /\ out = srvOut
    /\ err = <<>>
    /\ rdOut = FALSE /\ rdErr = FALSE
    /\ chan = <<>>
    /\ supPc = "none" /\ waitStatus = "none"
    /\ kill_chan = 0 /\ handles = 0
    /\ killCalls = 0 /\ lastKill = NoKill /\ startKills = 0
    /\ mwDone = FALSE /\ emitted = <<>> /\ delivered = <<>>
    /\ streamEnded = FALSE
    /\ exit_tx = "none"
    /\ IdleUnits

Init ==
    \E migrate \in BOOLEAN :
    \E srvOut \in IF migrate THEN SidecarOutputs ELSE {<<>>} :
        InitializeState(migrate, srvOut)

Next ==
    \/ ProcExit
    \/ StdoutReader
    \/ StderrReader
    \/ SupervisorTryWait
    \/ SupervisorSelectKill
    \/ SupervisorSelectSleep
    \/ SupervisorSend
    \/ StreamNext
    \/ StreamEnd
    \/ LoadingTaskConnect
    \/ SqliteDoneTask
    \/ LoadingTaskGate
    \/ LoadingTaskReady
    \/ HealthCheckReady
    \/ HealthCheckTerminated
    \/ HealthCheckOk
    \/ HealthCheckFailed
    \/ HealthCheckTimeout
    \/ HealthCheckPublish
    \/ kill_sidecar
    \/ InitializeShowMain
    \/ InitializeShowLoading
    \/ InitializeDone
    \/ LoadingWindowComplete
    \/ InitializeFinish
    \/ \E c \in Callers : AwaitJoin(c)
    \/ \E c \in Callers : AwaitChanged(c)
    \/ \E c \in Callers : AwaitReturn(c)

Spec == Init /\ [][Next]_vars

\* ------------------------------------------------------------- SpecE2E
\* initialize when a migration is required and the sidecar, if spawned,
\* prints the output of a whole migration.
InitE2E == InitializeState(TRUE, MigrationOutput)

SpecE2E == InitE2E /\ [][Next]_vars

\* ------------------------------------------------------------- SpecRes
\* setup_server_connection alone, over what it can find.
MaxProbes == 3

Probe(h, r) == [healthy |-> h, retry |-> r]

\* the runs of probes that end: the last probe is healthy or is answered
\* with Start Local
ProbeRuns ==
    {ps \in SeqsUpTo({Probe(h, r) : h, r \in BOOLEAN}, MaxProbes) :
        ps # <<>> /\ (ps[Len(ps)].healthy \/ ~ps[Len(ps)].retry)}

InitRes ==
    /\ resIn \in {Found(s, c, ps, l) :
                    s, l \in BOOLEAN, c \in ConfigProbes, ps \in ProbeRuns}
    /\ resOut = NoConnection
    /\ resSaved = NoSaved
    /\ IdleMw /\ IdleHc /\ IdleWr /\ IdleWin /\ IdleCred
    /\ mwDone = FALSE /\ emitted = <<>> /\ delivered = <<>>
    /\ IdleSup
    /\ IdleOrch

\* setup_server_connection runs to its return
Resolve ==
    /\ resOut = NoConnection
    /\ LET custom_url == get_saved_server_url(resIn.store, resIn.cfg)
       IN  /\ resSaved' = custom_url
           /\ resOut' = ServerConnection(custom_url.url # "none",
                                         check_health_or_ask_retry(resIn.probes),
                                         resIn.localHealthy)
    /\ UNCHANGED <<resIn, mwVars, hcVars, wrVars, winVars, credVars>>
    /\ UNCHANGED <<supVars, orchVars, callVars>>

NextRes == Resolve

SpecRes == InitRes /\ [][NextRes]_vars

\* -------------------------------------------------------------- SpecHc
\* The task spawned by spawn_local_server alone: the probes of the spawned
\* server raced against the exit oneshot of serve.
MaxHcProbes == 3

\* what a process can end with: an exit code, or a signal that killed it
Payloads ==
    {TerminatedPayload(Some(0), None), TerminatedPayload(Some(1), None),
     TerminatedPayload(None, Some(9)), TerminatedPayload(None, Some(15))}

\* format!("{:?}", o) of an Option<i32>
DebugOption(o) == IF o.some THEN "Some(" \o ToString(o.val) \o ")" ELSE "None"

\* the `terminated` future: exit.await gives Ok(payload) or Err(RecvError)
TerminatedMessage(exit) ==
    IF exit.state = "sent"
    THEN "Sidecar terminated before becoming healthy (code="
            \o DebugOption(exit.payload.code)
            \o " signal=" \o DebugOption(exit.payload.signal) \o ")"
    ELSE Terminated_before_healthy

\* (mutant) the select takes the `terminated` branch while exit is pending
TerminatedReadyAlways(exit) == TRUE

\* exit.await is ready: the payload was sent, or the sender was dropped
TerminatedReady(exit) == exit.state # "pending"

InitHc ==
    /\ IdleHc
    /\ IdleMw /\ IdleRes /\ IdleWr /\ IdleWin /\ IdleCred
    /\ mwDone = FALSE /\ emitted = <<>> /\ delivered = <<>>
    /\ IdleSup
    /\ IdleOrch

\* sleep(100 ms), then check_health(&url, Some(&password)) answers
HcProbe ==
    /\ hcOut = HcRunning /\ ~hcHealthy
    /\ \/ hcProbes < MaxHcProbes /\ hcProbes' = hcProbes + 1 /\ UNCHANGED hcHealthy
       \/ hcHealthy' = TRUE /\ UNCHANGED hcProbes
    /\ UNCHANGED <<hcExit, hcOut>>
    /\ UNCHANGED <<mwVars, resVars, wrVars, winVars, credVars>>
    /\ UNCHANGED <<supVars, orchVars, callVars>>

\* serve: the for_each closure is given Terminated(payload): tx.send(payload)
HcExitSend ==
    /\ hcExit = ExitPending
    /\ \E p \in Payloads : hcExit' = ExitSent(p)
    /\ UNCHANGED <<hcProbes, hcHealthy, hcOut>>
    /\ UNCHANGED <<mwVars, resVars, wrVars, winVars, credVars>>
    /\ UNCHANGED <<supVars, orchVars, callVars>>

\* serve: the stream ended with no Terminated event: exit_tx is dropped
HcExitDrop ==
    /\ hcExit = ExitPending
    /\ hcExit' = ExitDropped
    /\ UNCHANGED <<hcProbes, hcHealthy, hcOut>>
    /\ UNCHANGED <<mwVars, resVars, wrVars, winVars, credVars>>
    /\ UNCHANGED <<supVars, orchVars, callVars>>

\* tokio::select! { res = ready => res, res = terminated => res }: one of
\* the branches that are ready when the task is polled gives the result
HcSelect ==
    /\ hcOut = HcRunning
    /\ \/ hcHealthy /\ hcOut' = HcOk
       \/ TerminatedReady(hcExit) /\ hcOut' = HcErr(TerminatedMessage(hcExit))
    /\ UNCHANGED <<hcProbes, hcHealthy, hcExit>>
    /\ UNCHANGED <<mwVars, resVars, wrVars, winVars, credVars>>
    /\ UNCHANGED <<supVars, orchVars, callVars>>

NextHc ==
    \/ HcProbe
    \/ HcExitSend
    \/ HcExitDrop
    \/ HcSelect

SpecHc == InitHc /\ [][NextHc]_vars

\* ------------------------------------------------------------- SpecWin
\* select_backend alone, over the environment snapshots it can be given.

\* values of an environment variable, as written by the user
EnvValues == {"1", "TRUE", " on ", "0", ""}

EnvOptions == {NoneStr} \cup {SomeStr(v) : v \in EnvValues}

\* values of XDG_SESSION_TYPE
SessionTypes == {NoneStr, SomeStr("wayland"), SomeStr("WAYLAND"), SomeStr("x11")}

\* v.trim().to_ascii_lowercase(), over the values above
TrimLower(v) ==
    CASE v = "TRUE" -> "true"
      [] v = " on " -> "on"
      [] v = "WAYLAND" -> "wayland"
      [] v = "Native" -> "native"
      [] v = " off " -> "off"
      [] v = "GNOME" -> "gnome"
      [] v = "Hyprland" -> "hyprland"
      [] v = " i3 " -> "i3"
      [] OTHER -> v

\* is_truthy: Some(v) whose trimmed lowercase text is 1, true, yes or on
is_truthy(value) ==
    value.some /\ TrimLower(value.s) \in {"1", "true", "yes", "on"}

\* is_wayland_session: WAYLAND_DISPLAY is set, or XDG_SESSION_TYPE is
\* wayland in any case of letters
\* (mutant) only WAYLAND_DISPLAY is looked at
is_wayland_session_display_only(env) ==
    env.wayland_display

is_wayland_session(env) ==
    \/ env.wayland_display
    \/ env.xdg_session_type.some /\ TrimLower(env.xdg_session_type.s) = "wayland"

\* (mutant) OC_FORCE_WAYLAND is looked at before OC_FORCE_X11
select_backend_wayland_first(env, prefer_wayland) ==
    IF is_truthy(env.oc_force_wayland)
    THEN BackendDecision("Wayland", "Forcing native Wayland due to OC_FORCE_WAYLAND=1")
    ELSE IF is_truthy(env.oc_force_x11)
    THEN BackendDecision("X11", "Forcing X11 due to OC_FORCE_X11=1")
    ELSE IF ~is_wayland_session(env) THEN NoDecision
    ELSE IF prefer_wayland
    THEN BackendDecision("Wayland",
            "Wayland session detected; forcing native Wayland from settings")
    ELSE IF is_truthy(env.oc_allow_wayland)
    THEN BackendDecision("Wayland",
            "Wayland session detected; forcing native Wayland due to OC_ALLOW_WAYLAND=1")
    ELSE BackendDecision("Auto",
            "Wayland session detected; using native Wayland first with X11 fallback (auto backend). Set OC_FORCE_X11=1 to force X11.")

select_backend(env, prefer_wayland) ==
    IF is_truthy(env.oc_force_x11)
    THEN BackendDecision("X11", "Forcing X11 due to OC_FORCE_X11=1")
    ELSE IF is_truthy(env.oc_force_wayland)
    THEN BackendDecision("Wayland", "Forcing native Wayland due to OC_FORCE_WAYLAND=1")
    ELSE IF ~is_wayland_session(env) THEN NoDecision
    ELSE IF prefer_wayland
    THEN BackendDecision("Wayland",
            "Wayland session detected; forcing native Wayland from settings")
    ELSE IF is_truthy(env.oc_allow_wayland)
    THEN BackendDecision("Wayland",
            "Wayland session detected; forcing native Wayland due to OC_ALLOW_WAYLAND=1")
    ELSE BackendDecision("Auto",
            "Wayland session detected; using native Wayland first with X11 fallback (auto backend). Set OC_FORCE_X11=1 to force X11.")

InitWin ==
    /\ winEnv \in {SessionEnv(wd, st, fx, fw, aw) :
                     wd \in BOOLEAN, st \in SessionTypes,
                     fx \in EnvOptions, fw \in EnvOptions, aw \in EnvOptions}
    /\ winPrefer \in BOOLEAN
    /\ winOut = BackendPending
    /\ decOut = DecorationPending
    /\ IdleMw /\ IdleRes /\ IdleHc /\ IdleWr /\ IdleCred
    /\ mwDone = FALSE /\ emitted = <<>> /\ delivered = <<>>
    /\ IdleSup
    /\ IdleOrch

\* select_backend(&env, prefer_wayland) returns
SelectBackend ==
    /\ winOut = BackendPending
    /\ winOut' = select_backend(winEnv, winPrefer)
    /\ UNCHANGED <<winEnv, winPrefer, decOut>>
    /\ UNCHANGED <<mwVars, resVars, hcVars, wrVars, credVars>>
    /\ UNCHANGED <<supVars, orchVars, callVars>>

NextWin == SelectBackend

SpecWin == InitWin /\ [][NextWin]_vars

\* ------------------------------------------------------------- SpecDec
\* use_decorations alone, over the environment snapshots it can be given.

\* values of OC_LINUX_DECORATIONS, as written by the user
DecorationValues == {"auto", "Native", " off ", "1", "0", "yes"}

DecorationOptions == {NoneStr} \cup {SomeStr(v) : v \in DecorationValues}

\* values of OC_FORCE_DECORATIONS and OC_NO_DECORATIONS
LegacyOptions == {NoneStr, SomeStr("1"), SomeStr(" on "), SomeStr("0")}

\* values of XDG_CURRENT_DESKTOP, XDG_SESSION_DESKTOP and DESKTOP_SESSION
CurrentDesktops ==
    {NoneStr, SomeStr("GNOME"), SomeStr("sway"), SomeStr("ubuntu:GNOME"),
     SomeStr("sway:GNOME"), SomeStr("labwc")}
SessionDesktops == {NoneStr, SomeStr("Hyprland"), SomeStr("kde")}
DesktopSessions == {NoneStr, SomeStr(" i3 ")}

\* desktop.split(':'), over the values above
Split(v) ==
    CASE v = "ubuntu:GNOME" -> <<"ubuntu", "GNOME">>
      [] v = "sway:GNOME" -> <<"sway", "GNOME">>
      [] OTHER -> <<v>>

\* desktop_tokens: the parts of the three desktop variables that are set,
\* split on ':', trimmed and lowercased
desktop_tokens(env) ==
    UNION {{TrimLower(Split(o.s)[i]) : i \in DOMAIN Split(o.s)} :
             o \in {d \in {env.xdg_current_desktop, env.xdg_session_desktop,
                           env.desktop_session} : d.some}}

is_full_desktop_session(env) ==
    \E value \in desktop_tokens(env) :
        value \in {"gnome", "kde", "plasma", "xfce", "xfce4", "x-cinnamon",
                   "cinnamon", "mate", "lxqt", "budgie", "pantheon", "deepin",
                   "unity", "cosmic"}

is_known_tiling_session(env) ==
    \/ env.i3_sock
    \/ \E value \in desktop_tokens(env) :
        value \in {"niri", "sway", "swayfx", "hyprland", "river", "i3", "i3wm",
                   "bspwm", "dwm", "qtile", "xmonad", "leftwm", "dwl",
                   "awesome", "herbstluftwm", "spectrwm", "worm", "i3-gnome"}

\* Option<DecorationOverride>, as the name of the variant or "unrecognized"
\* for None
decoration_override(value) ==
    IF ~value.some THEN "unrecognized"
    ELSE IF TrimLower(value.s) = "auto" THEN "Auto"
    ELSE IF TrimLower(value.s) \in {"native", "server", "de", "wayland", "on",
                                    "true", "1"} THEN "Native"
    ELSE IF TrimLower(value.s) \in {"none", "off", "false", "0", "client",
                                    "csd"} THEN "None"
    ELSE "unrecognized"

default_use_decorations(env) ==
    IF is_known_tiling_session(env) THEN FALSE
    ELSE IF ~is_wayland_session(env) THEN TRUE
    ELSE is_full_desktop_session(env)

\* (mutant) the legacy overrides are looked at before OC_LINUX_DECORATIONS
use_decorations_legacy_first(env) ==
    IF is_truthy(env.oc_force_decorations) THEN TRUE
    ELSE IF is_truthy(env.oc_no_decorations) THEN FALSE
    ELSE IF decoration_override(env.oc_linux_decorations) = "Native" THEN TRUE
    ELSE IF decoration_override(env.oc_linux_decorations) = "None" THEN FALSE
    ELSE default_use_decorations(env)

use_decorations(env) ==
    IF decoration_override(env.oc_linux_decorations) = "Native" THEN TRUE
    ELSE IF decoration_override(env.oc_linux_decorations) = "None" THEN FALSE
    ELSE IF decoration_override(env.oc_linux_decorations) = "Auto"
    THEN default_use_decorations(env)
    ELSE IF is_truthy(env.oc_force_decorations) THEN TRUE
    ELSE IF is_truthy(env.oc_no_decorations) THEN FALSE
    ELSE default_use_decorations(env)

InitDec ==
    /\ winEnv \in {DecorationEnv(wd, st, cd, sd, ds, ld, fd, nd, i3) :
                     wd \in BOOLEAN, st \in SessionTypes,
                     cd \in CurrentDesktops, sd \in SessionDesktops,
                     ds \in DesktopSessions, ld \in DecorationOptions,
                     fd \in LegacyOptions, nd \in LegacyOptions,
                     i3 \in BOOLEAN}
    /\ winPrefer = FALSE
    /\ winOut = BackendPending
    /\ decOut = DecorationPending
    /\ IdleMw /\ IdleRes /\ IdleHc /\ IdleWr /\ IdleCred
    /\ mwDone = FALSE /\ emitted = <<>> /\ delivered = <<>>
    /\ IdleSup
    /\ IdleOrch

\* use_decorations(&env) returns
UseDecorations ==
    /\ decOut = DecorationPending
    /\ decOut' = Decorated(use_decorations(winEnv))
    /\ UNCHANGED <<winEnv, winPrefer, winOut>>
    /\ UNCHANGED <<mwVars, resVars, hcVars, wrVars, credVars>>
    /\ UNCHANGED <<supVars, orchVars, callVars>>

NextDec == UseDecorations

SpecDec == InitDec /\ [][NextDec]_vars

\* ------------------------------------------------------------ SpecCred
\* The per-launch password alone: from setup_server_connection through
\* spawn_local_server and serve to the probes and the Ready result.

\* probes of one launch that the model follows
MaxCredProbes == 3

\* what Uuid::new_v4().to_string() can return
Passwords == {"uuid-1", "uuid-2"}

\* the servers that can be found at a URL: down or up, open or protected by
\* a password (another launch's uuid, or somebody's own)
Servers ==
    {Server(u, a) : u \in BOOLEAN,
                    a \in {NoneStr} \cup {SomeStr(p) : p \in Passwords \cup {"secret"}}}

\* check_health(url, password): the GET of /global/health, with basic auth
\* when a password is given, answers 2xx
check_health(server, password) ==
    server.up /\ (server.auth.some => password = server.auth)

\* (mutant) the sidecar is started without OPENCODE_SERVER_PASSWORD
serve_without_password(password) == NoneStr

\* serve: OPENCODE_SERVER_PASSWORD in the environment of the sidecar
serve(password) == SomeStr(password)

\* spawn_local_server(app, hostname, port, password): the environment given
\* to the sidecar, and the password its health-check task probes with
spawn_local_server(password) ==
    [env |-> serve(password), probe |-> SomeStr(password)]

\* ServerReadyData { url, password } of the connection
ServerReadyData(connection) ==
    IF connection.kind = "Existing" THEN ExistingReady(connection.url)
    ELSE Ready(connection.url, connection.password)

InitCred ==
    /\ credIn \in {CredInput(cu, c, l, pw) :
                     cu \in BOOLEAN, c \in Servers, l \in Servers,
                     pw \in Passwords}
    /\ credPc = "custom"
    /\ credConn = NoConnection
    /\ credEnv = NoneStr /\ credTask = NoneStr
    /\ credProbes = <<>>
    /\ credOut = Pending
    /\ IdleMw /\ IdleRes /\ IdleHc /\ IdleWr /\ IdleWin
    /\ mwDone = FALSE /\ emitted = <<>> /\ delivered = <<>>
    /\ IdleSup
    /\ IdleOrch

\* setup_server_connection, the custom URL: check_health_or_ask_retry probes
\* it without a password, again when the user answers Retry
CredCustom ==
    /\ credPc = "custom"
    /\ IF ~credIn.customUrl
       THEN /\ credPc' = "local"
            /\ UNCHANGED <<credProbes, credConn>>
       ELSE /\ credProbes' = Append(credProbes, HealthProbe("custom", NoneStr))
            /\ IF check_health(credIn.custom, NoneStr)
               THEN /\ credConn' = Connection("Existing", "custom", "none")
                    /\ credPc' = "publish"
               ELSE /\ UNCHANGED credConn
                    /\ \E retry \in BOOLEAN :
                          /\ retry => Len(credProbes') < MaxCredProbes
                          /\ credPc' = IF retry THEN "custom" ELSE "local"
    /\ UNCHANGED <<credIn, credEnv, credTask, credOut>>
    /\ UNCHANGED <<mwVars, resVars, hcVars, wrVars, winVars>>
    /\ UNCHANGED <<supVars, orchVars, callVars>>

\* setup_server_connection, the local URL: one probe without a password,
\* then the uuid, spawn_local_server and ServerConnection::CLI
CredLocal ==
    /\ credPc = "local"
    /\ credProbes' = Append(credProbes, HealthProbe("local", NoneStr))
    /\ IF check_health(credIn.local, NoneStr)
       THEN /\ credConn' = Connection("Existing", "local", "none")
            /\ credPc' = "publish"
            /\ UNCHANGED <<credEnv, credTask>>
       ELSE LET password == credIn.uuid
                spawned == spawn_local_server(password)
            IN  /\ credEnv' = spawned.env
                /\ credTask' = spawned.probe
                /\ credConn' = Connection("CLI", "local", password)
                /\ credPc' = "health"
    /\ UNCHANGED <<credIn, credOut>>
    /\ UNCHANGED <<mwVars, resVars, hcVars, wrVars, winVars>>
    /\ UNCHANGED <<supVars, orchVars, callVars>>

\* one turn of the `ready` loop of the health-check task: the sidecar
\* answers or not yet, and requires the password of its environment
CredHealthProbe ==
    /\ credPc = "health"
    /\ Len(credProbes) < 2 * MaxCredProbes
    /\ credProbes' = Append(credProbes, HealthProbe("local", credTask))
    /\ \E up \in BOOLEAN :
          credPc' = IF check_health(Server(up, credEnv), credTask)
                    THEN "publish" ELSE "health"
    /\ UNCHANGED <<credIn, credConn, credEnv, credTask, credOut>>
    /\ UNCHANGED <<mwVars, resVars, hcVars, wrVars, winVars>>
    /\ UNCHANGED <<supVars, orchVars, callVars>>

\* the 30 s elapse with no probe having succeeded
CredHealthTimeout ==
    /\ credPc = "health"
    /\ credOut' = Failed(TimedOut)
    /\ credPc' = "done"
    /\ UNCHANGED <<credIn, credConn, credEnv, credTask, credProbes>>
    /\ UNCHANGED <<mwVars, resVars, hcVars, wrVars, winVars>>
    /\ UNCHANGED <<supVars, orchVars, callVars>>

\* server_ready_tx.send(Ok(ServerReadyData { url, password }))
CredReady ==
    /\ credPc = "publish"
    /\ credOut' = ServerReadyData(credConn)
    /\ credPc' = "done"
    /\ UNCHANGED <<credIn, credConn, credEnv, credTask, credProbes>>
    /\ UNCHANGED <<mwVars, resVars, hcVars, wrVars, winVars>>
    /\ UNCHANGED <<supVars, orchVars, callVars>>

NextCred ==
    \/ CredCustom
    \/ CredLocal
    \/ CredHealthProbe
    \/ CredHealthTimeout
    \/ CredReady

SpecCred == InitCred /\ [][NextCred]_vars

\* ================================================================ claims
Range(s) == {s[i] : i \in 1..Len(s)}

Count(s, k) == Cardinality({i \in 1..Len(s) : s[i].kind = k})

\* Terminated events the supervisor has put into the stream so far
TermCount == Count(chan, "Terminated") + Count(delivered, "Terminated")

\* every call of await_initialization has returned
AllReturned == \A c \in Callers : cPc[c] = "returned"

\* C1: however many calls of await_initialization are made, and whenever
\* they are made, setup_server_connection and what follows it run at most
\* once, and every call that returns returns the one published result (the
\* same value for all of them).
C1_Memoized ==
    /\ workRuns <= 1
    /\ \A c \in Callers :
          cPc[c] = "returned" => status # Pending /\ ret[c] = AwaitResult(status)
    /\ \A c, d \in Callers :
          cPc[c] = "returned" /\ cPc[d] = "returned" => ret[c] = ret[d]

\* every call returned the ready result of the spawned sidecar, computed once
C1_Witness ==
    /\ AllReturned
    /\ workRuns = 1
    /\ \A c \in Callers : ret[c] = Ready("local", "uuid")

\* C2: Terminated is the last item the event stream delivers: no Stdout or
\* Stderr event is delivered after it.
C2_TerminatedIsFinal ==
    \A i \in 1..Len(delivered) :
        delivered[i].kind = "Terminated" => i = Len(delivered)

\* C3: with two or more kill() calls the stream never holds two Terminated
\* events, and once the supervisor has seen the exit and the stream has
\* ended, exactly one was delivered.
C3_IdempotentKill ==
    killCalls >= 2 =>
        /\ TermCount <= 1
        /\ (streamEnded /\ waitStatus = "exit") => Count(delivered, "Terminated") = 1

\* both kill() calls were received by the supervisor while it was looping,
\* and the stream ended with one Terminated
C3_Witness ==
    /\ killCalls = 2 /\ handles = 1 /\ startKills = 2
    /\ streamEnded
    /\ Count(delivered, "Terminated") = 1

\* C4: at most one kill request is pending, and a kill() made while one is
\* pending returns Ok.
C4_KillFullReturnsOk ==
    /\ kill_chan <= KillCap
    /\ lastKill.pending => lastKill.ok

\* C5: the supervisor calls start_kill at most once for a process, however
\* many kill() calls are made (the handle is held throughout, so that every
\* start_kill counted here answers a kill() call).
C5_StartKillAtMostOnce == handles = 1 => startKills <= 1

\* C6: when the health-check timeout elapses, kill() is called exactly once,
\* the published result is the failure "Health check timed out", and the
\* kill comes before the publication.
C6_TimeoutKills ==
    /\ hcwRes = "timeout" =>
          /\ killCalls = 1
          /\ hcwPc \in {"publish", "done"}
          /\ hcwPc = "publish" => status = Pending
          /\ hcwPc = "done" => status = Failed(TimedOut)
    /\ status = Failed(TimedOut) => hcwRes = "timeout" /\ killCalls = 1

\* the timeout failure is published, after the one kill() which the
\* supervisor honoured
C6_Witness ==
    /\ status = Failed(TimedOut)
    /\ killCalls = 1 /\ lastKill.ok
    /\ startKills >= 1

\* the steps the program takes by itself (everything but the commands that
\* come from outside: kill_sidecar and the calls of await_initialization)
ProgramStep ==
    \/ ProcExit \/ StdoutReader \/ StderrReader
    \/ SupervisorTryWait \/ SupervisorSelectKill \/ SupervisorSelectSleep
    \/ SupervisorSend \/ StreamNext \/ StreamEnd
    \/ LoadingTaskConnect \/ SqliteDoneTask \/ LoadingTaskGate
    \/ LoadingTaskReady \/ HealthCheckReady \/ HealthCheckTerminated
    \/ HealthCheckOk \/ HealthCheckFailed \/ HealthCheckTimeout
    \/ HealthCheckPublish
    \/ InitializeShowMain \/ InitializeShowLoading \/ InitializeDone
    \/ LoadingWindowComplete \/ InitializeFinish

\* the sidecar was spawned and exited with no health probe having succeeded
DiedBeforeHealthy == conn = "CLI" /\ proc = "exited" /\ hcTask # "ok"

\* C7: when the sidecar dies before a health probe succeeded, a Failed
\* result is published: once the program has no step left to take, the
\* status is a failure.
C7_DiedBeforeHealthyFails ==
    (DiedBeforeHealthy /\ ~ENABLED ProgramStep) => status.tag = "failed"

\* C8: with a migration required and a spawned sidecar, cli_health_check
\* (and with it the timeout clock) is not started before the Done
\* notification was emitted and observed, and no timeout failure is
\* published before it.
C8_MigrationGate ==
    (needsMigration /\ conn = "CLI") =>
        /\ hcwPc # "none" =>
              Done \in Range(emitted) /\ done_tx = "sent" /\ sqlite_done = "joined"
        /\ hcwRes = "timeout" => Done \in Range(emitted)
        /\ status = Failed(TimedOut) => Done \in Range(emitted)

\* a migration ran to its end and the health check then timed out
C8_Witness ==
    /\ needsMigration /\ conn = "CLI"
    /\ status = Failed(TimedOut)

\* the observed call joined after ServerWaiting, SqliteWaiting, Done
JoinedLate ==
    /\ cPc[Observed] # "idle"
    /\ joinIdx = 3
    /\ SubSeq(stepHist, 1, 3) = <<"ServerWaiting", "SqliteWaiting", "Done">>

\* C9: a subscriber that joins after ServerWaiting, SqliteWaiting, Done
\* receives Done and nothing else: one delivery in all.
C9_LateSubscriberOnce == JoinedLate => sent = <<"Done">>

\* the steps published after the observed call joined, up to the first Done
PublishedAfterJoin ==
    {i \in (joinIdx + 1)..Len(stepHist) :
        \A k \in (joinIdx + 1)..(i - 1) : stepHist[k] # "Done"}

\* C10: a subscriber receives the step current when it joined first, and
\* then every step published after that up to Done: when its loop has
\* ended, none of them is missing from what it was sent.
C10_NoTransitionSkipped ==
    cPc[Observed] \in {"events_done", "returned"} =>
        /\ sent[1] = stepHist[joinIdx]
        /\ \A i \in PublishedAfterJoin :
              \E j \in 2..Len(sent) : sent[j] = stepHist[i]

\* the order of the steps: ServerWaiting < SqliteWaiting < Done
StepRank(st) ==
    IF st = "ServerWaiting" THEN 0 ELSE IF st = "SqliteWaiting" THEN 1 ELSE 2

Monotonic(steps) ==
    \A i, j \in 1..Len(steps) : i < j => StepRank(steps[i]) <= StepRank(steps[j])

C12_DeliveryEndsWithDone ==
    /\ Monotonic(sent)
    /\ \A i \in 1..Len(sent) : sent[i] = "Done" => i = Len(sent)

\* C13: the result is published once: a published status never changes.
C13_PublishedOnce == [][status # Pending => status' = status]_vars

\* the timeout failure stands although a probe succeeded after it
C13_Witness == status = Failed(TimedOut) /\ hcTask = "ok"

\* the closure of logs_middleware is given the event ev
Given(ev) == mwPos < Len(mwIn) /\ mwIn[mwPos + 1] = ev /\ mwPos' = mwPos + 1

\* the text of the line is the reserved prefix followed by an integer of 0..255
IsProgressLine(l) == l.utf8 /\ l.pfx /\ l.kind = "num" /\ l.n >= 0 /\ l.n <= 255

\* the text of the line is the reserved prefix followed by the token done
IsDoneLine(l) == l.utf8 /\ l.pfx /\ l.kind = "done"

\* C14: while the stream is not marked complete, a Stdout line made of the
\* prefix and an integer n of 0..255 is not forwarded and produces exactly
\* one InProgress(n) notification.
C14_ProgressSuppressed ==
    [][\A ev \in MwEvents :
          (Given(ev) /\ ~mwDone /\ ev.kind = "Stdout" /\ IsProgressLine(ev.line)) =>
              /\ delivered' = delivered
              /\ emitted' = Append(emitted, InProgress(ev.line.n))
              /\ mwDone' = mwDone]_vars

\* the stream was the one line "sqlite-migration: 42"
C14_Witness ==
    /\ mwIn = <<Stdout(Mig(42))>> /\ mwPos = 1
    /\ emitted = <<InProgress(42)>> /\ delivered = <<>>

\* C15: the completion line produces one Done notification, is suppressed
\* and sets the flag; from then on every event, also a line with the
\* prefix, is forwarded as it is and nothing more is notified.
C15_CompletionSentinel ==
    [][\A ev \in MwEvents :
          /\ (Given(ev) /\ ~mwDone /\ ev.kind = "Stdout" /\ IsDoneLine(ev.line)) =>
                /\ delivered' = delivered
                /\ emitted' = Append(emitted, Done)
                /\ mwDone'
          /\ (Given(ev) /\ mwDone) =>
                /\ delivered' = Append(delivered, ev)
                /\ emitted' = emitted
                /\ mwDone']_vars

\* after the completion line a progress line went through
C15_Witness ==
    /\ mwIn = <<Stdout(MigDone), Stdout(Mig(42))>> /\ mwPos = 2
    /\ emitted = <<Done>> /\ delivered = <<Stdout(Mig(42))>>
    /\ mwDone

C17_MalformedDropped ==
    [][\A ev \in MwEvents :
          (/\ Given(ev) /\ ~mwDone /\ ev.kind = "Stdout"
           /\ ev.line.utf8 /\ ev.line.pfx
           /\ ~IsProgressLine(ev.line) /\ ~IsDoneLine(ev.line)) =>
              /\ delivered' = delivered
              /\ emitted' = emitted
              /\ mwDone' = mwDone]_vars

\* a line with a number out of range and one with other text were dropped,
\* and the line after them was still interpreted
C17_Witness ==
    /\ mwIn = <<Stdout(Mig(256)), Stdout(MigJunk), Stdout(Mig(42))>> /\ mwPos = 3
    /\ emitted = <<InProgress(42)>> /\ delivered = <<>>
    /\ ~mwDone

\* a custom URL is configured
CustomConfigured == resIn.store \/ resIn.cfg = "port"

\* a probe of the custom URL succeeded: the probes before it failed and were
\* each answered with Retry
CustomProbeSucceeded ==
    \E i \in 1..Len(resIn.probes) :
        /\ resIn.probes[i].healthy
        /\ \A j \in 1..(i - 1) : ~resIn.probes[j].healthy /\ resIn.probes[j].retry

\* the end-to-end run has ended: the sidecar was spawned for a required
\* migration and printed all its lines, a probe succeeded, initialize ended,
\* and the observed call, joined while ServerWaiting was the only step sent,
\* has left its loop
EndToEndRun ==
    /\ needsMigration /\ conn = "CLI"
    /\ out = <<>> /\ chan = <<>>
    /\ hcTask = "ok" /\ status.tag = "ready"
    /\ initPc = "end"
    /\ joinIdx = 1
    /\ cPc[Observed] \in {"events_done", "returned"}

\* C18: in a run that spawns the sidecar for a first-run migration, where
\* the sidecar prints its progress line and then the done line and a probe
\* succeeds, one InProgress notification per progress line and one Done
\* notification are emitted, a subscriber joined from the start is sent
\* exactly ServerWaiting, SqliteWaiting, Done, each once, and the result is
\* Ready with the URL and password of the spawned server.
C18_EndToEnd ==
    EndToEndRun =>
        /\ emitted = <<InProgress(10), Done>>
        /\ status = Ready("local", "uuid")
        /\ sent = <<"ServerWaiting", "SqliteWaiting", "Done">>

\* C19: the resolver returns Existing with the custom URL only if one is
\* configured and a probe of it succeeded; otherwise Existing with the local
\* URL only if the probe of the local URL succeeded; otherwise it spawns a
\* local server with a generated password. It never spawns when a probe
\* succeeded.
C19_ResolverPreference ==
    resOut # NoConnection =>
        LET customOk == CustomConfigured /\ CustomProbeSucceeded
        IN  /\ resOut = Connection("Existing", "custom", "none") <=> customOk
            /\ resOut = Connection("Existing", "local", "none") <=>
                  (~customOk /\ resIn.localHealthy)
            /\ resOut = Connection("CLI", "local", "uuid") <=>
                  (~customOk /\ ~resIn.localHealthy)

\* a custom URL whose probe failed and was not retried, with a healthy local
\* server: the local one is taken and nothing is spawned
C19_Witness ==
    /\ CustomConfigured
    /\ ~resIn.probes[1].healthy /\ ~resIn.probes[1].retry
    /\ resIn.localHealthy
    /\ resOut = Connection("Existing", "local", "none")

\* C20: with an Existing connection Ready is published with the URL and no
\* password, no sidecar server is spawned, no health check and no timeout
\* are started, also when a migration is required.
C20_ExistingImmediate ==
    conn = "Existing" =>
        /\ status \in {Ready("custom", "none"), Ready("local", "none")}
        /\ proc = "none" /\ supPc = "none" /\ handles = 0
        /\ hcTask = "none" /\ hcwPc = "none" /\ hcwRes = "none"
        /\ killCalls = 0
        /\ ltPc \in {"await_ready", "finished"}

\* a first run that found a healthy server: initialize ended while the
\* migration was never reported complete
C20_Witness ==
    /\ conn = "Existing" /\ needsMigration
    /\ sqlite_done = "pending"
    /\ initPc = "end"

\* the task of spawn_local_server returns in this step
HcReturns == hcOut = HcRunning /\ hcOut' # HcRunning

\* the message names the exit code and the signal of the payload
EmbedsPayload(m, p) ==
    m = Terminated_before_healthy \o " (code=" \o DebugOption(p.code)
            \o " signal=" \o DebugOption(p.signal) \o ")"

\* C21: the health-check task returns Ok only if a probe succeeded and a
\* failure only if the exit signal resolved; when only one of the two has
\* resolved that one decides, the result never changes afterwards, and the
\* failure after a Terminated event names the exit code and the signal of
\* its payload.
C21_HealthRace ==
    [][/\ hcOut # HcRunning => hcOut' = hcOut
       /\ HcReturns =>
            /\ hcOut' = HcOk => hcHealthy
            /\ hcOut'.state = "err" => hcExit.state # "pending"
            /\ hcHealthy /\ hcExit.state = "pending" => hcOut' = HcOk
            /\ ~hcHealthy => hcOut'.state = "err"
            /\ hcOut'.state = "err" /\ hcExit.state = "sent" =>
                  EmbedsPayload(hcOut'.message, hcExit.payload)]_vars

\* the process was killed by signal 9 after a failed probe and before any
\* probe succeeded: the task failed with the payload in its message
C21_Witness ==
    /\ hcProbes > 0 /\ ~hcHealthy
    /\ hcExit = ExitSent(TerminatedPayload(None, Some(9)))
    /\ hcOut = HcErr("Sidecar terminated before becoming healthy (code=None signal=Some(9))")

\* the stdout lines the reader task has sent into the channel so far: those
\* still in it, those delivered, and those the middleware turned into a
\* progress event
StdoutForwarded ==
    Count(chan, "Stdout") + Count(delivered, "Stdout") + Len(emitted)

StderrForwarded == Count(chan, "Stderr") + Count(delivered, "Stderr")

\* C22: no line is lost: every line the process wrote to stdout or stderr
\* is either still to be read or was forwarded as one event, whatever the
\* channel holds and whether or not a line is valid UTF-8.
C22_NoLineLoss ==
    /\ StdoutForwarded + Len(out) = Len(wOut)
    /\ StderrForwarded + Len(err) = Len(wErr)

\* the lines of the events of one kind, in the order of the sequence
RECURSIVE LinesOf(_, _)
LinesOf(evs, k) ==
    IF evs = <<>> THEN <<>>
    ELSE IF Head(evs).kind = k THEN <<Head(evs).line>> \o LinesOf(Tail(evs), k)
    ELSE LinesOf(Tail(evs), k)

IsPrefix(a, b) == Len(a) <= Len(b) /\ SubSeq(b, 1, Len(a)) = a

KillRequestedOrExited == kill_chan > 0 \/ proc = "exited"

\* the stream has ended after exactly one Terminated event (or, when the
\* wait itself failed, after the Error event that stands for it)
StreamCompleted ==
    /\ streamEnded
    /\ \/ Count(delivered, "Terminated") = 1 /\ Count(delivered, "Error") = 0
       \/ waitStatus = "error" /\ Count(delivered, "Terminated") = 0

\* C24: once kill() has put a request to the supervisor of a live process,
\* or the process has exited by itself, then with fair scheduling and a
\* consumer that keeps polling, exactly one Terminated event is emitted and
\* the stream ends; kill() returns at once, before any of that.
C24_KillCompletes == KillRequestedOrExited ~> StreamCompleted

\* kill() has returned Ok while the process still runs and the supervisor
\* has not yet seen the request
C24_Witness ==
    /\ killCalls = 1 /\ lastKill.ok /\ kill_chan = 1
    /\ proc = "running" /\ supPc = "select"
    /\ TermCount = 0 /\ ~streamEnded

\* (C24 with the failure of the wait set apart) the same holds in every run
\* in which try_wait does not fail
C24_UnlessWaitFails ==
    KillRequestedOrExited ~> (StreamCompleted \/ waitStatus = "error")

\* Error events the supervisor has put into the stream so far
ErrorCount == Count(chan, "Error") + Count(delivered, "Error")

\* C25: the supervisor puts exactly one of Terminated and Error into the
\* stream, when it ends; when the wait failed it is one Error event and no
\* Terminated event, else one Terminated event and no Error event.
C25_OneStatusEvent ==
    /\ supPc # "done" => TermCount = 0 /\ ErrorCount = 0
    /\ supPc = "done" => TermCount + ErrorCount = 1
    /\ supPc = "done" /\ waitStatus = "error" => ErrorCount = 1 /\ TermCount = 0
    /\ supPc = "done" /\ waitStatus = "exit" => TermCount = 1 /\ ErrorCount = 0

\* the wait failed and the stream has ended: the consumer was handed the
\* Error event and no Terminated event
C25_Witness ==
    /\ waitStatus = "error" /\ streamEnded
    /\ Count(delivered, "Error") = 1
    /\ Count(delivered, "Terminated") = 0

\* setup_server_connection was run and the sidecar could not be spawned
SpawnFailed == ltPc \notin {"none", "connect"} /\ conn = "none"

\* C26: when the sidecar server cannot be spawned the loading task does
\* not panic, and the result that is published is a failure with a message.
C26_SpawnFailureReported ==
    SpawnFailed => ltPc # "panicked" /\ status.tag = "failed"

\* C27: the main window is created either directly, when the loading task
\* completed within the delay, or after a loading window was shown and the
\* loading task has completed: in both cases not before the loading task
\* has completed, and a loading window is shown whenever the task did not
\* complete within the delay.
C27_MainAfterLoading ==
    /\ mainCreates > 0 => LoadingTaskEnded
    /\ initPc = "await_loading" /\ ~LoadingTaskEnded => loadingWindow = "shown"

\* C28: setup_server_connection and what follows it do not run before a
\* first call of await_initialization awaits the result, and they run at
\* most once however many calls there are.
C28_LazyTrigger ==
    /\ workRuns > 0 => \E c \in Callers : cPc[c] # "idle"
    /\ workRuns <= 1

\* the run of the CLI for its configuration gave no URL
ConfigProbeFailed == resIn.cfg \in {"spawn_failed", "not_json", "no_server", "no_port"}

\* C29: a saved URL of the settings store is taken and get_config is not
\* run; without one, a configuration run that cannot be spawned, whose
\* output is not JSON of the expected shape, or that has no server.port
\* counts as no custom URL, and the resolver goes on with the probe of the
\* local URL and, failing that, the spawn; it always returns a connection.
C29_ConfigProbeNotFatal ==
    resOut # NoConnection =>
        /\ resIn.store => resSaved = Saved("saved", 0)
        /\ ~resIn.store /\ ConfigProbeFailed =>
              /\ resSaved = Saved("none", 1)
              /\ resOut = IF resIn.localHealthy
                          THEN Connection("Existing", "local", "none")
                          ELSE Connection("CLI", "local", "uuid")
        /\ ~resIn.store /\ ~ConfigProbeFailed => resSaved = Saved("config", 1)

\* the configuration has a server section with no port and no local server
\* answers: a local server is spawned
C29_Witness ==
    /\ ~resIn.store /\ resIn.cfg = "no_port" /\ ~resIn.localHealthy
    /\ resOut = Connection("CLI", "local", "uuid")

\* the variable is set to one of the texts that count as true
Truthy(o) == o \in {SomeStr("1"), SomeStr("TRUE"), SomeStr(" on ")}

\* C30: whatever the environment and prefer_wayland, a truthy OC_FORCE_X11
\* gives the backend X11, also when OC_FORCE_WAYLAND, OC_ALLOW_WAYLAND and
\* prefer_wayland are set; without it a truthy OC_FORCE_WAYLAND gives
\* Wayland, also outside a Wayland session.
C30_ForceOverrides ==
    winOut # BackendPending =>
        /\ Truthy(winEnv.oc_force_x11) =>
              winOut.some /\ winOut.backend = "X11"
        /\ ~Truthy(winEnv.oc_force_x11) /\ Truthy(winEnv.oc_force_wayland) =>
              winOut.some /\ winOut.backend = "Wayland"

\* everything asks for Wayland in a Wayland session, and OC_FORCE_X11 is
\* set as well: X11 is returned
C30_Witness ==
    /\ winEnv = SessionEnv(TRUE, SomeStr("wayland"), SomeStr(" on "),
                           SomeStr("1"), SomeStr("1"))
    /\ winPrefer
    /\ winOut = BackendDecision("X11", "Forcing X11 due to OC_FORCE_X11=1")

\* the session is a Wayland one: WAYLAND_DISPLAY is set, or XDG_SESSION_TYPE
\* says wayland
InWaylandSession ==
    \/ winEnv.wayland_display
    \/ winEnv.xdg_session_type \in {SomeStr("wayland"), SomeStr("WAYLAND")}

NoForceOverride ==
    ~Truthy(winEnv.oc_force_x11) /\ ~Truthy(winEnv.oc_force_wayland)

\* C31: with neither force override set, select_backend returns no decision
\* outside a Wayland session whatever prefer_wayland and OC_ALLOW_WAYLAND
\* are, and inside one it returns Wayland when prefer_wayland or
\* OC_ALLOW_WAYLAND is truthy and Auto otherwise.
C31_SessionPolicy ==
    winOut # BackendPending /\ NoForceOverride =>
        IF ~InWaylandSession
        THEN winOut = NoDecision
        ELSE /\ winOut.some
             /\ winOut.backend =
                    IF winPrefer \/ Truthy(winEnv.oc_allow_wayland)
                    THEN "Wayland" ELSE "Auto"

\* an X11 session whose user prefers Wayland and allows it: no decision
C31_Witness ==
    /\ winEnv = SessionEnv(FALSE, SomeStr("x11"), NoneStr, SomeStr("0"),
                           SomeStr("1"))
    /\ winPrefer
    /\ winOut = NoDecision

\* what the user wrote in OC_LINUX_DECORATIONS, by class
NativeClass == {SomeStr("Native"), SomeStr("1")}
NoneClass == {SomeStr(" off "), SomeStr("0")}
AutoClass == {SomeStr("auto")}

DesktopFields ==
    {winEnv.xdg_current_desktop, winEnv.xdg_session_desktop,
     winEnv.desktop_session}

\* the session is a known tiling one: I3SOCK is set or a desktop variable
\* names a tiling window manager
KnownTiling ==
    \/ winEnv.i3_sock
    \/ DesktopFields \cap {SomeStr("sway"), SomeStr("sway:GNOME"),
                           SomeStr("Hyprland"), SomeStr(" i3 ")} # {}

\* a desktop variable names a full desktop environment
KnownFullDesktop ==
    DesktopFields \cap {SomeStr("GNOME"), SomeStr("ubuntu:GNOME"),
                        SomeStr("sway:GNOME"), SomeStr("kde")} # {}

\* the default session policy, in the words of the claim
DefaultPolicy ==
    IF KnownTiling THEN FALSE
    ELSE IF ~InWaylandSession THEN TRUE
    ELSE KnownFullDesktop

\* C32: use_decorations lets a recognized OC_LINUX_DECORATIONS decide first
\* (native class true, none class false, auto the default policy), then a
\* truthy OC_FORCE_DECORATIONS, then a truthy OC_NO_DECORATIONS, then the
\* default policy: false for a known tiling session, true outside Wayland,
\* and on Wayland true only for a known full desktop.
C32_DecorationPrecedence ==
    decOut # DecorationPending =>
        decOut.value =
            IF winEnv.oc_linux_decorations \in NativeClass THEN TRUE
            ELSE IF winEnv.oc_linux_decorations \in NoneClass THEN FALSE
            ELSE IF winEnv.oc_linux_decorations \in AutoClass THEN DefaultPolicy
            ELSE IF Truthy(winEnv.oc_force_decorations) THEN TRUE
            ELSE IF Truthy(winEnv.oc_no_decorations) THEN FALSE
            ELSE DefaultPolicy

\* OC_LINUX_DECORATIONS of the none class on GNOME under Wayland, with
\* OC_FORCE_DECORATIONS set as well: no decorations
C32_Witness ==
    /\ winEnv = DecorationEnv(TRUE, NoneStr, SomeStr("GNOME"), NoneStr,
                              NoneStr, SomeStr(" off "), SomeStr("1"),
                              SomeStr(" on "), FALSE)
    /\ decOut = Decorated(FALSE)

\* C33: the supervisor runs start_kill only in answer to a kill() call:
\* when no kill() was ever called, as when every CommandChild of a live
\* process is dropped, the supervisor has not terminated the process.
C33_TerminateOnlyOnKill == startKills > 0 => killCalls > 0

\* a sidecar was spawned, its process runs and its supervisor listens
SidecarAlive == conn = "CLI" /\ proc = "running" /\ supPc # "done"

\* an invocation of kill_sidecar that sends a kill request
KillDelivered == kill_sidecar /\ killCalls' = killCalls + 1 /\ lastKill'.ok

\* (C34 from the moment the handle is stored) once the health check has
\* succeeded and the handle is in ServerState, kill_sidecar delivers
C34_OnceStored ==
    (SidecarAlive /\ stateChild /\ killCalls = 0) => ENABLED KillDelivered

\* C34: at every point of the initialization at which the spawned sidecar
\* process is alive and no kill was requested yet, an invocation of
\* kill_sidecar delivers a kill request to its supervisor.
C34_KillReachesSidecar ==
    (SidecarAlive /\ killCalls = 0) => ENABLED KillDelivered

\* C35: ServerState holds the process handle only if the connection is a
\* spawned one whose health check succeeded and kill_sidecar has not taken
\* it (no kill was sent, the handle is alive); it holds none in any state of
\* an Existing connection nor once a failure outcome exists.
C35_StoredHandle ==
    /\ stateChild =>
          /\ conn = "CLI" /\ hcTask = "ok" /\ hcwRes = "ok"
          /\ killCalls = 0 /\ handles = 1
    /\ conn = "Existing" => ~stateChild
    /\ (hcwRes \in {"timeout", "terminated"} \/ status.tag \in {"failed", "canceled"})
          => ~stateChild

\* the handle is stored and the Ready result is published
C35_Witness ==
    /\ stateChild /\ conn = "CLI"
    /\ status = Ready("local", "uuid")

\* C36: kill_sidecar is idempotent: of all its invocations after a health
\* check that succeeded, one takes the stored handle and sends the one kill
\* request; no step sends a kill request without taking the handle, and none
\* sends a second one.
C36_KillSidecarOnce ==
    [][(hcwRes = "ok" /\ killCalls' # killCalls) =>
          /\ stateChild /\ ~stateChild'
          /\ killCalls = 0 /\ killCalls' = 1]_vars

\* kill_sidecar has taken the handle and sent its request to the supervisor
\* of the running sidecar; a further invocation finds None
C36_Witness ==
    /\ hcwRes = "ok" /\ ~stateChild /\ killCalls = 1 /\ lastKill.ok
    /\ proc = "running" /\ handles = 0
    /\ ENABLED kill_sidecar

\* the positions of the published steps that are Done
DonePublished == {i \in DOMAIN stepHist : stepHist[i] = "Done"}

\* C37: InitStep Done is published at most once, and only once the loading
\* task has ended, when the terminal result is resolved (Ready, Failed or a
\* closed channel): in no state is Done published while the result is
\* pending.
C37_DoneAfterResult ==
    /\ Cardinality(DonePublished) <= 1
    /\ DonePublished # {} => LoadingTaskEnded /\ status # Pending

\* Done is the broadcast step after the loading task panicked: the result
\* channel is closed
C37_Witness ==
    /\ stepHist[Len(stepHist)] = "Done"
    /\ ltPc = "panicked" /\ status = Canceled

\* C38: await_initialization returns only once the terminal result is
\* resolved and the call's own step subscriber has finished, having
\* delivered Done or found the step channel closed; no call has returned
\* while a published Done is still undelivered to it.
C38_ReturnAfterBoth ==
    \A c \in Callers :
        cPc[c] = "returned" =>
            /\ status # Pending
            /\ ret[c] = AwaitResult(status)
            /\ DonePublished # {} \/ WatchClosed
            /\ DonePublished # {} => \E i \in DonePublished : seen[c] >= i
            /\ (c = Observed /\ DonePublished # {}) => "Done" \in Range(sent)

\* the observed call has returned Ready after it was sent ServerWaiting and
\* then Done
C38_Witness ==
    /\ cPc[Observed] = "returned"
    /\ ret[Observed].tag = "ready"
    /\ sent = <<"ServerWaiting", "Done">>

\* a loading window has been shown in this run of initialize
LoadingShown == loadingWindow \in {"shown", "closed"}

\* C39: when a loading window has been shown, Done is published only after
\* the loading task ended, the main window is created only after Done was
\* published and the LoadingWindowComplete acknowledgment was received, and
\* the loading window is closed only after the main window was created; in
\* every path at most one main window is built.
C39_FinishOrder ==
    /\ mainWindows <= 1
    /\ LoadingShown =>
          /\ DonePublished # {} => LoadingTaskEnded
          /\ initPc = "ack" => DonePublished # {}
          /\ mainWindows > 0 => ack /\ DonePublished # {}
          /\ loadingWindow = "closed" => mainWindows = 1 /\ initPc = "end"

\* initialize has ended on the path with a loading window: the window is
\* closed and the one main window was built by the one call of create
C39_Witness ==
    /\ loadingWindow = "closed" /\ initPc = "end"
    /\ mainCreates = 1 /\ mainWindows = 1

\* the probes from position k + 1 on all carry password p, those up to k
\* carry none
ProbesSplitAt(k, p) ==
    \A i \in DOMAIN credProbes :
        credProbes[i].password = IF i <= k THEN NoneStr ELSE SomeStr(p)

\* C40: for a spawned connection the password of the Ready result is the
\* per-launch password that is in the sidecar's environment and in every
\* wait-until-healthy probe (the probes that follow the anonymous ones of
\* the selection); for an Existing connection the Ready result has no
\* password and every probe that selected it was made without credentials.
C40_CredentialConsistency ==
    credOut.tag = "ready" =>
        IF credConn.kind = "CLI"
        THEN /\ credOut.password = credIn.uuid
             /\ credEnv = SomeStr(credOut.password)
             /\ \E k \in 1..(Len(credProbes) - 1) :
                   ProbesSplitAt(k, credOut.password)
        ELSE /\ credConn.kind = "Existing"
             /\ credOut.password = "none"
             /\ credEnv = NoneStr
             /\ ProbesSplitAt(Len(credProbes), "")

\* a spawned sidecar answered the second probe made with the launch's
\* password, after a protected server at the local URL refused the
\* anonymous probe
C40_Witness ==
    /\ credOut = Ready("local", "uuid-2")
    /\ credIn.local = Server(TRUE, SomeStr("secret"))
    /\ credEnv = SomeStr("uuid-2")
    /\ credProbes = <<HealthProbe("local", NoneStr),
                      HealthProbe("local", SomeStr("uuid-2")),
                      HealthProbe("local", SomeStr("uuid-2"))>>

====
